---- MODULE Spec2Model ----
(***************************************************************************)
(* Model of the badminton match scheduler (backend/src/scheduler.ts).      *)
(*                                                                         *)
(* generateSchedule is modelled as a state machine: one action validates   *)
(* the input and enumerates teams and matches, one action is one whole     *)
(* iteration of the scheduling loop (safety check, selectRoundMatches,     *)
(* urgency repair, statistics update, round commit, pool removal), and one *)
(* action is the loop's exit.  Players are numbered; the numbering order   *)
(* stands for the string order of their names.  Match ids (uuidv4 in the   *)
(* source) are drawn from a counter that never repeats a value.            *)
(***************************************************************************)
EXTENDS Integers, Sequences, FiniteSets, TLC

VARIABLES
    pc,                 \* "start" | "loop" | "done" | "error"
    inputPlayers,       \* generateSchedule argument
    courts,             \* generateSchedule argument
    matchType,          \* generateSchedule argument
    players,            \* uniquePlayers
    remainingMatches,   \* pool of matches not yet scheduled
    playerStats,        \* player -> [playCount, restCount, lastPlayedRound]
    teamUsageCount,     \* team key -> number of uses
    teamLastUsedRound,  \* team key -> last round used
    rounds,             \* rounds emitted so far
    roundNumber,        \* index of the round being built
    warning,            \* "none" or the warning tag
    error,              \* "none" or the text of the thrown Error
    nextId,             \* number of ids the id generator has handed out
    repairIds,          \* history: ids of the matches appended by urgency repair
    exitReason,         \* history: why the loop stopped
    validation,         \* <<>> or <<the value validateSchedule returned>>
    firstRun,           \* <<>> or <<arguments and result of an earlier call>>
    restStats,          \* <<>> or <<the value calculateRestStats returned>>
    schedules,          \* store.schedules: schedule id -> Schedule
    response,           \* <<>> or <<the last HTTP response sent>>
    served,             \* history: number of HTTP requests answered
    created,            \* history: schedule id -> rounds sent in its 201 response
    toggleCount,        \* history: <<schedule id, round id>> -> successful toggles
    request,            \* history: <<>> or <<the body of the last create request>>
    view,               \* App's schedule state: <<>> or <<the schedule shown>>
    loadingRounds,      \* ScheduleView's loadingRounds
    calls,              \* handleToggleComplete invocations awaiting their response
    clicks              \* history: number of toggle buttons clicked

vars == <<pc, inputPlayers, courts, matchType, players, remainingMatches,
          playerStats, teamUsageCount, teamLastUsedRound, rounds, roundNumber,
          warning, error, nextId, repairIds, exitReason, validation, firstRun,
          restStats, schedules, response, served, created, toggleCount,
          request, view, loadingRounds, calls, clicks>>

(* The state of the browser client *)
clientVars == <<view, loadingRounds, calls, clicks>>

-----------------------------------------------------------------------------
(* Bounds of the model *)

MaxSingles == 8
MaxDoubles == 6
MaxCourts == 3
MaxBalanceSingles == 11
MaxLarge == 18
LargeCourts == 9
MaxValidateLen == 2
MaxRestRounds == 2
MaxRequests == 3
MaxClicks == 3

(* Program constants *)

MinPlayers == 5
LargeN == 16
maxIterations == 1000
NeverUsed == -10
NeverPlayed == -1
SmallRoster == 7
RestTolerance10 == 3    \* 0.3, in tenths

-----------------------------------------------------------------------------
(* Generic helpers *)

ToSet(s) == {s[i] : i \in DOMAIN s}

Min2(a, b) == IF a <= b THEN a ELSE b
Max2(a, b) == IF a >= b THEN a ELSE b
Abs(x) == IF x < 0 THEN -x ELSE x

(* The loops of the source over arrays are written as recursions that split *)
(* the index range in two halves, first half first, so that their depth is  *)
(* logarithmic in the length.                                               *)

RECURSIVE FlattenRange(_, _, _)
FlattenRange(ss, lo, hi) ==
    IF lo > hi THEN <<>>
    ELSE IF lo = hi THEN ss[lo]
    ELSE LET mid == (lo + hi) \div 2
         IN FlattenRange(ss, lo, mid) \o FlattenRange(ss, mid + 1, hi)

Flatten(ss) == FlattenRange(ss, 1, Len(ss))

SetMin(S) == CHOOSE x \in S : \A y \in S : x <= y

(* Mutant: a repeated name keeps the position of its last occurrence *)
RECURSIVE DedupKeepLast(_)
DedupKeepLast(s) ==
    IF s = <<>> THEN <<>>
    ELSE LET rest == DedupKeepLast(Tail(s))
         IN IF Head(s) \in ToSet(Tail(s)) THEN rest ELSE <<Head(s)>> \o rest

(* Array.from(new Set(list)): the distinct elements in first-occurrence order *)
RECURSIVE Dedup(_)
Dedup(s) ==
    IF s = <<>> THEN <<>>
    ELSE LET rest == Dedup(SubSeq(s, 1, Len(s) - 1))
             x == s[Len(s)]
         IN IF x \in ToSet(rest) THEN rest ELSE Append(rest, x)

Roster(n) == [i \in 1..n |-> i]

-----------------------------------------------------------------------------
(* Enumeration *)

(* Mutant: the singles loop stops one player short *)
generateTeamsOffByOne(ps, mt) ==
    IF mt = "singles" THEN [i \in 1..(Len(ps) - 1) |-> <<ps[i]>>]
    ELSE Flatten([i \in 1..Len(ps) |->
                    [k \in 1..(Len(ps) - i) |-> <<ps[i], ps[i + k]>>]])

generateTeams(ps, mt) ==
    IF mt = "singles" THEN [i \in 1..Len(ps) |-> <<ps[i]>>]
    ELSE Flatten([i \in 1..Len(ps) |->
                    [k \in 1..(Len(ps) - i) |-> <<ps[i], ps[i + k]>>]])

teamsOverlap(teamA, teamB) == \E i \in DOMAIN teamB : teamB[i] \in ToSet(teamA)

(* Mutant: the teamsOverlap test is left out *)
MatchPairsNoOverlapTest(teams) ==
    Flatten([i \in 1..Len(teams) |->
               [k \in 1..(Len(teams) - i) |-> <<teams[i], teams[i + k]>>]])

(* The team pairs generateAllMatches emits, in its order, without ids *)
MatchPairs(teams) ==
    Flatten([i \in 1..Len(teams) |->
               SelectSeq([k \in 1..(Len(teams) - i) |-> <<teams[i], teams[i + k]>>],
                         LAMBDA p : ~teamsOverlap(p[1], p[2]))])

(* Mutant: the ids restart with every enumeration instead of being fresh *)
generateAllMatchesRestartIds(teams, base) ==
    LET pairs == MatchPairs(teams)
    IN [k \in 1..Len(pairs) |->
          [id |-> k, teamA |-> pairs[k][1], teamB |-> pairs[k][2]]]

(* generateAllMatches with the id generator having handed out `base` ids *)
generateAllMatches(teams, base) ==
    LET pairs == MatchPairs(teams)
    IN [k \in 1..Len(pairs) |->
          [id |-> base + k, teamA |-> pairs[k][1], teamB |-> pairs[k][2]]]

getMatchPlayers(m) == ToSet(m.teamA) \cup ToSet(m.teamB)

(* [...team].sort().join(","): the team's players in name order *)
getTeamKey(team) ==
    IF Len(team) = 2 /\ team[2] < team[1] THEN <<team[2], team[1]>> ELSE team

getMatchTeams(m) == <<getTeamKey(m.teamA), getTeamKey(m.teamB)>>

-----------------------------------------------------------------------------
(* Scoring *)

(* `v || d` on a number: 0 is falsy *)
JsOr(v, d) == IF v = 0 THEN d ELSE v

MaxConsecutiveRestsFor(numPlayers) == IF numPlayers <= SmallRoster THEN 1 ELSE 2

(* currentRound - lastPlayedRound *)
RoundsSince(p, ps, currentRound) == currentRound - ps[p].lastPlayedRound

calculateTeamFreshnessScore(m, tuc, tlr, currentRound) ==
    LET keys == getMatchTeams(m)
        totalUsage == JsOr(tuc[keys[1]], 0) + JsOr(tuc[keys[2]], 0)
        roundsSinceA == currentRound - JsOr(tlr[keys[1]], NeverUsed)
        roundsSinceB == currentRound - JsOr(tlr[keys[2]], NeverUsed)
        penA == IF roundsSinceA <= 1 THEN 100 ELSE IF roundsSinceA <= 2 THEN 50 ELSE 0
        penB == IF roundsSinceB <= 1 THEN 100 ELSE IF roundsSinceB <= 2 THEN 50 ELSE 0
    IN totalUsage * 100 + penA + penB + (10 - Min2(roundsSinceA, roundsSinceB))

(* The players of a match in Set insertion order: teamA, then teamB *)
MatchPlayerSeq(m) == m.teamA \o m.teamB

RECURSIVE SeqSum(_)
SeqSum(s) == IF s = <<>> THEN 0 ELSE Head(s) + SeqSum(Tail(s))

RECURSIVE SeqMax(_)
SeqMax(s) == IF Len(s) = 1 THEN s[1] ELSE Max2(Head(s), SeqMax(Tail(s)))

RECURSIVE SeqMin(_)
SeqMin(s) == IF Len(s) = 1 THEN s[1] ELSE Min2(Head(s), SeqMin(Tail(s)))

(* currentRound - lastPlayedRound of each player of the match *)
Waits(m, ps, currentRound) ==
    LET pl == MatchPlayerSeq(m)
    IN [i \in 1..Len(pl) |-> RoundsSince(pl[i], ps, currentRound)]

(* One element of `candidates`.  avgRest is kept as the fraction restSum/size. *)
(* maxWait, sumWait and minWait are the values the comparator and the first   *)
(* pass compute from playerStats each time they look at the candidate;        *)
(* playerStats does not change while a round is selected.                     *)
Candidate(m, ps, tuc, tlr, currentRound) ==
    LET pl == MatchPlayerSeq(m)
        waits == Waits(m, ps, currentRound)
    IN [match |-> m,
        players |-> getMatchPlayers(m),
        avgRest |-> [num |-> SeqSum([i \in 1..Len(pl) |-> JsOr(ps[pl[i]].restCount, 0)]),
                     den |-> Cardinality(getMatchPlayers(m))],
        roundsSincePlay |->
            currentRound - SeqMax([i \in 1..Len(pl) |-> ps[pl[i]].lastPlayedRound]),
        freshnessScore |-> calculateTeamFreshnessScore(m, tuc, tlr, currentRound),
        maxWait |-> SeqMax(waits),
        sumWait |-> SeqSum(waits),
        minWait |-> SeqMin(waits)]

(* Mutant: the wait tiers order the smaller max wait first *)
CompareSmallerWaitFirst(a, b, T) ==
    LET maxDiff == a.maxWait - b.maxWait
        urgencyThreshold == Max2(1, T - 1)
        restNum == b.avgRest.num * a.avgRest.den - a.avgRest.num * b.avgRest.den
        restDen == a.avgRest.den * b.avgRest.den
    IN IF (a.maxWait >= T \/ b.maxWait >= T) /\ maxDiff # 0 THEN maxDiff * 100000
       ELSE IF (a.maxWait >= urgencyThreshold \/ b.maxWait >= urgencyThreshold)
               /\ maxDiff # 0
            THEN maxDiff * 10000
       ELSE IF a.sumWait # b.sumWait THEN (b.sumWait - a.sumWait) * 100
       ELSE IF 10 * Abs(restNum) > RestTolerance10 * restDen
            THEN (IF restNum > 0 THEN 1 ELSE -1) * 50
       ELSE IF a.minWait # b.minWait THEN (b.minWait - a.minWait) * 10
       ELSE a.freshnessScore - b.freshnessScore

(* The comparator handed to candidates.sort: negative puts a first *)
Compare(a, b, T) ==
    LET maxDiff == b.maxWait - a.maxWait
        urgencyThreshold == Max2(1, T - 1)
        \* restDiff = b.avgRest - a.avgRest, as the fraction restNum / restDen
        restNum == b.avgRest.num * a.avgRest.den - a.avgRest.num * b.avgRest.den
        restDen == a.avgRest.den * b.avgRest.den
    IN IF (a.maxWait >= T \/ b.maxWait >= T) /\ maxDiff # 0 THEN maxDiff * 100000
       ELSE IF (a.maxWait >= urgencyThreshold \/ b.maxWait >= urgencyThreshold)
               /\ maxDiff # 0
            THEN maxDiff * 10000
       ELSE IF a.sumWait # b.sumWait THEN (b.sumWait - a.sumWait) * 100
       ELSE IF 10 * Abs(restNum) > RestTolerance10 * restDen
            THEN (IF restNum > 0 THEN 1 ELSE -1) * 50
       ELSE IF a.minWait # b.minWait THEN (b.minWait - a.minWait) * 10
       ELSE a.freshnessScore - b.freshnessScore

-----------------------------------------------------------------------------
(* Array.prototype.sort as the engine runs it on arrays shorter than 64:   *)
(* the initial run is found (and reversed when strictly descending), then  *)
(* the other elements are placed by binary insertion.  With a consistent   *)
(* comparator this is the stable sorted order, whatever the length.        *)

Reverse(s) == [i \in 1..Len(s) |-> s[Len(s) + 1 - i]]

(* CountAndMakeRun: <<array with its initial run ascending, length of that run>>. *)
(* The run ends before the first element that breaks it.                          *)
CountAndMakeRun(arr, T) ==
    IF Len(arr) < 2 THEN <<arr, Len(arr)>>
    ELSE LET desc == Compare(arr[2], arr[1], T) < 0
             breaks == {idx \in 3..Len(arr) :
                          LET order == Compare(arr[idx], arr[idx - 1], T)
                          IN (desc /\ order >= 0) \/ (~desc /\ order < 0)}
             n == IF breaks = {} THEN Len(arr) ELSE SetMin(breaks) - 1
         IN IF desc THEN <<Reverse(SubSeq(arr, 1, n)) \o SubSeq(arr, n + 1, Len(arr)), n>>
            ELSE <<arr, n>>

RECURSIVE InsertionPoint(_, _, _, _, _)
InsertionPoint(arr, pivot, left, right, T) ==
    IF left >= right THEN left
    ELSE LET mid == left + ((right - left) \div 2)
         IN IF Compare(pivot, arr[mid], T) < 0
            THEN InsertionPoint(arr, pivot, left, mid, T)
            ELSE InsertionPoint(arr, pivot, mid + 1, right, T)

(* One step of BinaryInsertionSort: arr[start] is moved into arr[1..start-1] *)
InsertPivot(arr, start, T) ==
    LET pivot == arr[start]
        left == InsertionPoint(arr, pivot, 1, start, T)
    IN SubSeq(arr, 1, left - 1) \o <<pivot>> \o
       SubSeq(arr, left, start - 1) \o SubSeq(arr, start + 1, Len(arr))

(* BinaryInsertionSort: the steps for start = lo, ..., hi in this order *)
RECURSIVE BinaryInsertionSort(_, _, _, _)
BinaryInsertionSort(arr, lo, hi, T) ==
    IF lo > hi \/ Len(arr) = 0 THEN arr
    ELSE IF lo = hi THEN InsertPivot(arr, lo, T)
    ELSE LET mid == (lo + hi) \div 2
         IN BinaryInsertionSort(BinaryInsertionSort(arr, lo, mid, T), mid + 1, hi, T)

SortCandidates(cands, T) ==
    LET run == CountAndMakeRun(cands, T)
    IN BinaryInsertionSort(run[1], run[2] + 1, Len(cands), T)

-----------------------------------------------------------------------------
(* Round packing *)

(* Mutant: the first pass takes the matches without a critical player *)
FirstPassStepNonCritical(c, acc, T) ==
    LET hasCriticalPlayer == c.maxWait >= T
        hasConflict == c.players \cap acc.usedPlayers # {}
    IN IF ~hasCriticalPlayer /\ ~hasConflict
       THEN [selected |-> Append(acc.selected, c.match),
             usedPlayers |-> acc.usedPlayers \cup c.players]
       ELSE acc

(* First pass over candidates[lo..hi]: matches holding a player at the rest *)
(* threshold                                                                *)
FirstPassStep(c, acc, T) ==
    LET hasCriticalPlayer == c.maxWait >= T
        hasConflict == c.players \cap acc.usedPlayers # {}
    IN IF hasCriticalPlayer /\ ~hasConflict
       THEN [selected |-> Append(acc.selected, c.match),
             usedPlayers |-> acc.usedPlayers \cup c.players]
       ELSE acc

(* Mutant: the first pass does not stop when the courts are full *)
RECURSIVE FirstPassNoCourtLimit(_, _, _, _, _, _)
FirstPassNoCourtLimit(cands, lo, hi, acc, crts, T) ==
    IF lo > hi \/ Len(acc.selected) < 0 THEN acc
    ELSE IF lo = hi THEN FirstPassStep(cands[lo], acc, T)
    ELSE LET mid == (lo + hi) \div 2
         IN FirstPassNoCourtLimit(cands, mid + 1, hi,
                                  FirstPassNoCourtLimit(cands, lo, mid, acc, crts, T),
                                  crts, T)

RECURSIVE FirstPass(_, _, _, _, _, _)
FirstPass(cands, lo, hi, acc, crts, T) ==
    IF lo > hi \/ Len(acc.selected) >= crts THEN acc
    ELSE IF lo = hi THEN FirstPassStep(cands[lo], acc, T)
    ELSE LET mid == (lo + hi) \div 2
         IN FirstPass(cands, mid + 1, hi, FirstPass(cands, lo, mid, acc, crts, T), crts, T)

(* Second pass over candidates[lo..hi]: fill the courts left with the best *)
(* matches without conflict                                                *)
SecondPassStep(c, acc) ==
    LET alreadySelected == c.match \in ToSet(acc.selected)
        hasConflict == c.players \cap acc.usedPlayers # {}
    IN IF ~alreadySelected /\ ~hasConflict
       THEN [selected |-> Append(acc.selected, c.match),
             usedPlayers |-> acc.usedPlayers \cup c.players]
       ELSE acc

(* Mutant: the second pass does not stop when the courts are full *)
RECURSIVE SecondPassNoCourtLimit(_, _, _, _, _)
SecondPassNoCourtLimit(cands, lo, hi, acc, crts) ==
    IF lo > hi \/ Len(acc.selected) < 0 THEN acc
    ELSE IF lo = hi THEN SecondPassStep(cands[lo], acc)
    ELSE LET mid == (lo + hi) \div 2
         IN SecondPassNoCourtLimit(cands, mid + 1, hi,
                                   SecondPassNoCourtLimit(cands, lo, mid, acc, crts),
                                   crts)

RECURSIVE SecondPass(_, _, _, _, _)
SecondPass(cands, lo, hi, acc, crts) ==
    IF lo > hi \/ Len(acc.selected) >= crts THEN acc
    ELSE IF lo = hi THEN SecondPassStep(cands[lo], acc)
    ELSE LET mid == (lo + hi) \div 2
         IN SecondPass(cands, mid + 1, hi, SecondPass(cands, lo, mid, acc, crts), crts)

(* Mutant: both passes stop one court short of `courts` *)
selectRoundMatchesOneCourtShort(availableMatches, crts, ps, tuc, tlr, currentRound) ==
    IF Len(availableMatches) = 0 \/ crts = 0 THEN <<>>
    ELSE LET maxConsecutiveRests == MaxConsecutiveRestsFor(Cardinality(DOMAIN ps))
             candidates ==
                 SortCandidates(
                     [k \in 1..Len(availableMatches) |->
                        Candidate(availableMatches[k], ps, tuc, tlr, currentRound)],
                     maxConsecutiveRests)
             first == FirstPass(candidates, 1, Len(candidates),
                                [selected |-> <<>>, usedPlayers |-> {}],
                                Max2(1, crts - 1), maxConsecutiveRests)
         IN SecondPass(candidates, 1, Len(candidates), first, Max2(1, crts - 1)).selected

(* Mutant: the second pass that fills the remaining courts is left out *)
selectRoundMatchesFirstPassOnly(availableMatches, crts, ps, tuc, tlr, currentRound) ==
    IF Len(availableMatches) = 0 \/ crts = 0 THEN <<>>
    ELSE LET maxConsecutiveRests == MaxConsecutiveRestsFor(Cardinality(DOMAIN ps))
             candidates ==
                 SortCandidates(
                     [k \in 1..Len(availableMatches) |->
                        Candidate(availableMatches[k], ps, tuc, tlr, currentRound)],
                     maxConsecutiveRests)
         IN FirstPass(candidates, 1, Len(candidates),
                      [selected |-> <<>>, usedPlayers |-> {}],
                      crts, maxConsecutiveRests).selected

selectRoundMatches(availableMatches, crts, ps, tuc, tlr, currentRound) ==
    IF Len(availableMatches) = 0 \/ crts = 0 THEN <<>>
    ELSE LET maxConsecutiveRests == MaxConsecutiveRestsFor(Cardinality(DOMAIN ps))
             candidates ==
                 SortCandidates(
                     SubSeq([k \in 1..Len(availableMatches) |->
                               Candidate(availableMatches[k], ps, tuc, tlr, currentRound)],
                            1, Len(availableMatches)),
                     maxConsecutiveRests)
             first == FirstPass(candidates, 1, Len(candidates),
                                [selected |-> <<>>, usedPlayers |-> {}],
                                crts, maxConsecutiveRests)
         IN SecondPass(candidates, 1, Len(candidates), first, crts).selected

-----------------------------------------------------------------------------
(* The scheduling loop of generateSchedule *)

(* Players whose wait has reached maxConsecutiveRests at the top of round r *)
UrgentPlayers(pls, ps, r) ==
    {p \in ToSet(pls) :
        RoundsSince(p, ps, r) >= MaxConsecutiveRestsFor(Len(pls))}

(* SAFETY CHECK: some player is urgent and no remaining match holds one *)
SafetyStop(pls, ps, r, remaining) ==
    LET urgentPlayers == UrgentPlayers(pls, ps, r)
        canScheduleUrgent ==
            \E k \in DOMAIN remaining :
                getMatchPlayers(remaining[k]) \cap urgentPlayers # {}
    IN urgentPlayers # {} /\ ~canScheduleUrgent

(* The repair loop over allPossibleMatches[lo..hi]: a match holding a missing *)
(* urgent player and no player already playing is appended                   *)
(* Mutant: the conflict test against the players already playing is left out *)
RepairStepNoConflictTest(m, acc, missingUrgentPlayers) ==
    LET matchPlayers == getMatchPlayers(m)
        hasUrgent == matchPlayers \cap missingUrgentPlayers # {}
    IN IF hasUrgent
       THEN [acc EXCEPT !.roundMatches = Append(@, m),
                        !.playingPlayers = @ \cup matchPlayers,
                        !.added = @ \cup {m.id}]
       ELSE acc

(* Mutant: the test for a missing urgent player is left out *)
RepairStepAnyMatch(m, acc, missingUrgentPlayers) ==
    LET matchPlayers == getMatchPlayers(m)
        hasConflict == matchPlayers \cap acc.playingPlayers # {}
    IN IF ~hasConflict
       THEN [acc EXCEPT !.roundMatches = Append(@, m),
                        !.playingPlayers = @ \cup matchPlayers,
                        !.added = @ \cup {m.id}]
       ELSE acc

RepairStep(m, acc, missingUrgentPlayers) ==
    LET matchPlayers == getMatchPlayers(m)
        hasUrgent == matchPlayers \cap missingUrgentPlayers # {}
        hasConflict == matchPlayers \cap acc.playingPlayers # {}
    IN IF hasUrgent /\ ~hasConflict
       THEN [acc EXCEPT !.roundMatches = Append(@, m),
                        !.playingPlayers = @ \cup matchPlayers,
                        !.added = @ \cup {m.id}]
       ELSE acc

RECURSIVE RepairPass(_, _, _, _, _, _)
RepairPass(allPossibleMatches, lo, hi, acc, missingUrgentPlayers, crts) ==
    IF lo > hi \/ Len(acc.roundMatches) >= crts THEN acc
    ELSE IF lo = hi THEN RepairStep(allPossibleMatches[lo], acc, missingUrgentPlayers)
    ELSE LET mid == (lo + hi) \div 2
         IN RepairPass(allPossibleMatches, mid + 1, hi,
                       RepairPass(allPossibleMatches, lo, mid, acc,
                                  missingUrgentPlayers, crts),
                       missingUrgentPlayers, crts)

PlayersOf(ms) == UNION {getMatchPlayers(ms[k]) : k \in DOMAIN ms}

(* Mutant: the packed round is committed without the urgency repair *)
UrgencyRepairSkipped(roundMatches, pls, mt, crts, ps, r, base) ==
    [roundMatches |-> roundMatches, playingPlayers |-> PlayersOf(roundMatches),
     added |-> {}, idsUsed |-> 0]

(* Urgency repair of the packed round.  idsUsed: ids drawn by the fresh    *)
(* enumeration; added: ids of the matches appended.                        *)
UrgencyRepair(roundMatches, pls, mt, crts, ps, r, base) ==
    LET playingPlayers == PlayersOf(roundMatches)
        urgentPlayers == UrgentPlayers(pls, ps, r)
        missingUrgentPlayers == urgentPlayers \ playingPlayers
        unchanged == [roundMatches |-> roundMatches, playingPlayers |-> playingPlayers,
                      added |-> {}, idsUsed |-> 0]
    IN IF urgentPlayers # {} /\ missingUrgentPlayers # {} /\ Len(roundMatches) < crts
       THEN LET allPossibleMatches == generateAllMatches(generateTeams(pls, mt), base)
            IN RepairPass(allPossibleMatches, 1, Len(allPossibleMatches),
                          [unchanged EXCEPT !.idsUsed = Len(allPossibleMatches)],
                          missingUrgentPlayers, crts)
       ELSE unchanged

(* The matches of the round being built: packing, then urgency repair *)
RoundSelection ==
    UrgencyRepair(selectRoundMatches(remainingMatches, courts, playerStats,
                                     teamUsageCount, teamLastUsedRound, roundNumber),
                  players, matchType, courts, playerStats, roundNumber, nextId)

(* Why the loop stops in the current state, given the round selection `sel` *)
(* it would make; "none" when it commits a round                             *)
LoopExit(sel) ==
    IF Len(remainingMatches) = 0 THEN "exhausted"
    ELSE IF ~(roundNumber < maxIterations) THEN "cap"
    ELSE IF SafetyStop(players, playerStats, roundNumber, remainingMatches) THEN "gate"
    ELSE IF Len(sel.roundMatches) = 0 THEN "empty"
    ELSE "none"

(* Mutant: the filter keeps the players that play *)
restingPlayersOfInverted(pls, playingPlayers) ==
    SelectSeq(pls, LAMBDA p : p \in playingPlayers)

restingPlayersOf(pls, playingPlayers) ==
    SelectSeq(pls, LAMBDA p : p \notin playingPlayers)

(* Mutant: restCount is incremented for the playing players as well *)
UpdatePlayerStatsRestForAll(ps, playingPlayers, r) ==
    [p \in DOMAIN ps |->
        IF p \in playingPlayers
        THEN [ps[p] EXCEPT !.playCount = @ + 1, !.lastPlayedRound = r,
                           !.restCount = @ + 1]
        ELSE [ps[p] EXCEPT !.restCount = @ + 1]]

UpdatePlayerStats(ps, playingPlayers, r) ==
    [p \in DOMAIN ps |->
        IF p \in playingPlayers
        THEN [ps[p] EXCEPT !.playCount = @ + 1, !.lastPlayedRound = r]
        ELSE [ps[p] EXCEPT !.restCount = @ + 1]]

(* The team keys of the round's matches, in update order *)
RoundTeamKeys(ms) == Flatten([k \in 1..Len(ms) |-> getMatchTeams(ms[k])])

RECURSIVE CountIn(_, _)
CountIn(s, x) ==
    IF s = <<>> THEN 0 ELSE (IF Head(s) = x THEN 1 ELSE 0) + CountIn(Tail(s), x)

UpdateTeamUsage(tuc, ms) ==
    LET keys == RoundTeamKeys(ms)
    IN [t \in DOMAIN tuc |-> JsOr(tuc[t], 0) + CountIn(keys, t)]

UpdateTeamLastUsed(tlr, ms, r) ==
    LET keys == ToSet(RoundTeamKeys(ms))
    IN [t \in DOMAIN tlr |-> IF t \in keys THEN r ELSE tlr[t]]

(* Mutant: the round id is the 0-based round number *)
NewRoundZeroBasedId(r, roundMatches, restingPlayers) ==
    [id |-> <<"r", r>>, matches |-> roundMatches,
     resting |-> restingPlayers, completed |-> FALSE]

(* The Round pushed for round number r; the id `r${r + 1}` is kept as a pair *)
NewRound(r, roundMatches, restingPlayers) ==
    [id |-> <<"r", r + 1>>, matches |-> roundMatches,
     resting |-> restingPlayers, completed |-> FALSE]

(* Mutant: the matches of the round that are not from the pool are put into it *)
RemoveScheduledAddsAppended(remaining, ms) ==
    LET scheduledIds == {ms[k].id : k \in DOMAIN ms}
        poolIds == {remaining[k].id : k \in DOMAIN remaining}
    IN SelectSeq(remaining, LAMBDA m : m.id \notin scheduledIds) \o
       SelectSeq(ms, LAMBDA m : m.id \notin poolIds)

(* Mutant: the set holds the positions of the round's matches, not their ids *)
RemoveScheduledByPosition(remaining, ms) ==
    LET scheduledIds == DOMAIN ms
    IN SelectSeq(remaining, LAMBDA m : m.id \notin scheduledIds)

(* Mutant: only the round's first match is removed from the pool *)
RemoveScheduledFirstOnly(remaining, ms) ==
    SelectSeq(remaining, LAMBDA m : m.id # ms[1].id)

RemoveScheduled(remaining, ms) ==
    LET scheduledIds == {ms[k].id : k \in DOMAIN ms}
    IN SelectSeq(remaining, LAMBDA m : m.id \notin scheduledIds)

-----------------------------------------------------------------------------
(* calculateRestStats and validateSchedule *)

(* Mutant: the smallest count is taken as 0 *)
calculateRestStatsMinZero(rs, pls) ==
    LET resting == Flatten([k \in 1..Len(rs) |-> rs[k].resting])
        restCounts == [p \in ToSet(pls) \cup ToSet(resting) |-> CountIn(resting, p)]
        counts == {restCounts[p] : p \in DOMAIN restCounts}
    IN [restCounts |-> restCounts,
        maxDiff |-> IF counts # {}
                    THEN (CHOOSE c \in counts : \A d \in counts : d <= c) - 0
                    ELSE 0]

(* Mutant: the players are not initialised to 0, a player who never rests *)
(* has no entry                                                           *)
calculateRestStatsOmitsZero(rs, pls) ==
    LET resting == Flatten([k \in 1..Len(rs) |-> rs[k].resting])
        restCounts == [p \in ToSet(resting) |-> CountIn(resting, p)]
        counts == {restCounts[p] : p \in DOMAIN restCounts}
    IN [restCounts |-> restCounts,
        maxDiff |-> IF counts # {}
                    THEN (CHOOSE c \in counts : \A d \in counts : d <= c) - SetMin(counts)
                    ELSE 0]

(* calculateRestStats: a Map entry per player, one more for each time the  *)
(* player is in a resting list; maxDiff over the Map's values              *)
calculateRestStats(rs, pls) ==
    LET resting == Flatten([k \in 1..Len(rs) |-> rs[k].resting])
        restCounts == [p \in ToSet(pls) \cup ToSet(resting) |-> CountIn(resting, p)]
        counts == {restCounts[p] : p \in DOMAIN restCounts}
    IN [restCounts |-> restCounts,
        maxDiff |-> IF counts # {}
                    THEN (CHOOSE c \in counts : \A d \in counts : d <= c) - SetMin(counts)
                    ELSE 0]

(* validateSchedule, the players of one match of round i (0-based), in the *)
(* insertion order of getMatchPlayers' Set                                 *)
RECURSIVE ValidatePlayerLoop(_, _, _)
ValidatePlayerLoop(acc, ps, i) ==
    IF ps = <<>> THEN acc
    ELSE ValidatePlayerLoop(
             [acc EXCEPT
                !.errors = IF Head(ps) \in acc.playersInRound
                           THEN Append(@, <<"Round ", i + 1, ": Player ", Head(ps),
                                            " appears multiple times">>)
                           ELSE @,
                !.playersInRound = @ \cup {Head(ps)}],
             Tail(ps), i)

(* Mutant: the id is added to the set before the set is tested *)
ValidateMatchAddsIdFirst(acc, m, i) ==
    LET checked == ValidatePlayerLoop(acc, Dedup(MatchPlayerSeq(m)), i)
        seen == checked.allMatchIds \cup {m.id}
    IN [checked EXCEPT
          !.errors = IF m.id \in seen
                     THEN Append(@, <<"Duplicate match ID: ", m.id>>) ELSE @,
          !.allMatchIds = seen]

(* validateSchedule, one match of round i (0-based): the player loop, then *)
(* the id check                                                            *)
ValidateMatch(acc, m, i) ==
    LET checked == ValidatePlayerLoop(acc, Dedup(MatchPlayerSeq(m)), i)
    IN [checked EXCEPT
          !.errors = IF m.id \in checked.allMatchIds
                     THEN Append(@, <<"Duplicate match ID: ", m.id>>) ELSE @,
          !.allMatchIds = @ \cup {m.id}]

RECURSIVE ValidateMatchLoop(_, _, _)
ValidateMatchLoop(acc, ms, i) ==
    IF ms = <<>> THEN acc
    ELSE ValidateMatchLoop(ValidateMatch(acc, Head(ms), i), Tail(ms), i)

RECURSIVE ValidateRoundLoop(_, _, _)
ValidateRoundLoop(acc, rs, i) ==
    IF i >= Len(rs) THEN acc
    ELSE ValidateRoundLoop(
             ValidateMatchLoop([acc EXCEPT !.playersInRound = {}],
                               rs[i + 1].matches, i),
             rs, i + 1)

validateSchedule(rs) ==
    LET errors == ValidateRoundLoop([errors |-> <<>>, playersInRound |-> {},
                                     allMatchIds |-> {}],
                                    rs, 0).errors
    IN [valid |-> Len(errors) = 0, errors |-> errors]

-----------------------------------------------------------------------------
(* Inputs *)

SinglesInputs ==
    {[players |-> Roster(n), courts |-> c, matchType |-> "singles"] :
        n \in (MinPlayers - 1)..MaxSingles, c \in 0..MaxCourts}

DoublesInputs ==
    {[players |-> Roster(n), courts |-> c, matchType |-> "doubles"] :
        n \in (MinPlayers - 1)..MaxDoubles, c \in 0..MaxCourts}

DuplicateInputs ==
    {[players |-> <<1, 2, 3, 4, 5, 5, 6>>, courts |-> 2, matchType |-> "singles"],
     [players |-> <<1, 1, 2, 2, 3, 3>>, courts |-> 1, matchType |-> "singles"],
     [players |-> <<1, 1, 2, 2, 3, 3>>, courts |-> 0, matchType |-> "doubles"],
     [players |-> <<1, 2, 2, 3, 4, 5>>, courts |-> 0, matchType |-> "singles"]}

Inputs == SinglesInputs \cup DoublesInputs \cup DuplicateInputs

InitWith(inputs) ==
    /\ \E inp \in inputs :
          /\ inputPlayers = inp.players
          /\ courts = inp.courts
          /\ matchType = inp.matchType
    /\ pc = "start"
    /\ players = <<>>
    /\ remainingMatches = <<>>
    /\ playerStats = <<>>
    /\ teamUsageCount = <<>>
    /\ teamLastUsedRound = <<>>
    /\ rounds = <<>>
    /\ roundNumber = 0
    /\ warning = "none"
    /\ error = "none"
    /\ nextId = 0
    /\ repairIds = {}
    /\ exitReason = "none"
    /\ validation = <<>>
    /\ firstRun = <<>>
    /\ restStats = <<>>
    /\ schedules = <<>>
    /\ response = <<>>
    /\ served = 0
    /\ created = <<>>
    /\ toggleCount = <<>>
    /\ request = <<>>
    /\ view = <<>>
    /\ loadingRounds = {}
    /\ calls = {}
    /\ clicks = 0

Init == InitWith(Inputs)

-----------------------------------------------------------------------------
(* Actions *)

(* Mutant: rosters of exactly 5 unique players are rejected too *)
ValidationErrorOffByOne(input, crts) ==
    LET uniquePlayers == Dedup(input)
        duplicateCount == Len(input) - Len(uniquePlayers)
    IN IF Len(uniquePlayers) < Len(input) /\ Len(uniquePlayers) <= MinPlayers
       THEN <<"After removing ", duplicateCount, " duplicate(s), only ",
              Len(uniquePlayers), " unique players remain. Minimum 5 required.">>
       ELSE IF Len(uniquePlayers) <= MinPlayers THEN "At least 5 unique players required"
       ELSE IF crts < 1 THEN "At least 1 court required"
       ELSE "none"

(* The Error thrown by the validation, "none" when the input is valid *)
ValidationError(input, crts) ==
    LET uniquePlayers == Dedup(input)
        duplicateCount == Len(input) - Len(uniquePlayers)
    IN IF Len(uniquePlayers) < Len(input) /\ Len(uniquePlayers) < MinPlayers
       THEN <<"After removing ", duplicateCount, " duplicate(s), only ",
              Len(uniquePlayers), " unique players remain. Minimum 5 required.">>
       ELSE IF Len(uniquePlayers) < MinPlayers THEN "At least 5 unique players required"
       ELSE IF crts < 1 THEN "At least 1 court required"
       ELSE "none"

(* Mutant: the fallback starts at 16 players *)
WarningForFromSixteen(uniquePlayers) ==
    IF Len(uniquePlayers) >= LargeN THEN "large_n; fallback_to_greedy" ELSE "none"

(* useFallback and the warning it sets; "none" is the undefined warning *)
WarningFor(uniquePlayers) ==
    IF Len(uniquePlayers) > LargeN THEN "large_n; fallback_to_greedy" ELSE "none"

(* Mutant: the statistics of an earlier call are kept instead of a new Map *)
InitialPlayerStatsKeptBetweenCalls(uniquePlayers) ==
    IF firstRun # <<>> /\ DOMAIN firstRun[1].playerStats = ToSet(uniquePlayers)
    THEN firstRun[1].playerStats
    ELSE [p \in ToSet(uniquePlayers) |->
            [playCount |-> 0, restCount |-> 0, lastPlayedRound |-> NeverPlayed]]

(* Mutant: lastPlayedRound starts at 0 instead of -1 *)
InitialPlayerStatsLastPlayedZero(uniquePlayers) ==
    [p \in ToSet(uniquePlayers) |->
        [playCount |-> 0, restCount |-> 0, lastPlayedRound |-> 0]]

(* playerStats as the call initialises it *)
InitialPlayerStats(uniquePlayers) ==
    [p \in ToSet(uniquePlayers) |->
        [playCount |-> 0, restCount |-> 0, lastPlayedRound |-> NeverPlayed]]

(* generateSchedule up to the loop: validation, enumeration, initial statistics *)
Generate ==
    /\ pc = "start"
    /\ LET uniquePlayers == Dedup(inputPlayers)
           err == ValidationError(inputPlayers, courts)
           teams == generateTeams(uniquePlayers, matchType)
           allMatches == generateAllMatches(teams, nextId)
           teamKeys == {getTeamKey(teams[k]) : k \in DOMAIN teams}
       IN IF err # "none"
          THEN /\ pc' = "error"
               /\ error' = err
               /\ UNCHANGED <<players, remainingMatches, playerStats, teamUsageCount,
                              teamLastUsedRound, warning, nextId>>
          ELSE /\ pc' = "loop"
               /\ players' = uniquePlayers
               /\ warning' = WarningFor(uniquePlayers)
               /\ remainingMatches' = allMatches
               /\ nextId' = nextId + Len(allMatches)
               /\ playerStats' = InitialPlayerStats(uniquePlayers)
               /\ teamUsageCount' = [t \in teamKeys |-> 0]
               /\ teamLastUsedRound' = [t \in teamKeys |-> NeverUsed]
               /\ UNCHANGED error
    /\ UNCHANGED <<inputPlayers, courts, matchType, rounds, roundNumber, repairIds,
                   exitReason, validation, firstRun, restStats,
                   schedules, response, served, created, toggleCount,
                   request>>
    /\ UNCHANGED clientVars

(* One iteration of the loop that commits a round *)
ScheduleRound ==
    /\ pc = "loop"
    /\ LET sel == RoundSelection
           roundMatches == sel.roundMatches
           playingPlayers == PlayersOf(roundMatches)
       IN /\ LoopExit(sel) = "none"
          /\ playerStats' = UpdatePlayerStats(playerStats, playingPlayers, roundNumber)
          /\ teamUsageCount' = UpdateTeamUsage(teamUsageCount, roundMatches)
          /\ teamLastUsedRound' =
                UpdateTeamLastUsed(teamLastUsedRound, roundMatches, roundNumber)
          /\ rounds' = Append(rounds,
                              NewRound(roundNumber, roundMatches,
                                       restingPlayersOf(players, playingPlayers)))
          /\ remainingMatches' = RemoveScheduled(remainingMatches, roundMatches)
          /\ nextId' = nextId + sel.idsUsed
          /\ repairIds' = repairIds \cup sel.added
    /\ roundNumber' = roundNumber + 1
    /\ UNCHANGED <<pc, inputPlayers, courts, matchType, players, warning, error,
                   exitReason, validation, firstRun, restStats,
                   schedules, response, served, created, toggleCount,
                   request>>
    /\ UNCHANGED clientVars

(* The loop ends and generateSchedule returns {rounds, warning} *)
Return ==
    /\ pc = "loop"
    /\ LET reason == LoopExit(RoundSelection)
       IN /\ reason # "none"
          /\ exitReason' = reason
    /\ pc' = "done"
    /\ UNCHANGED <<inputPlayers, courts, matchType, players, remainingMatches,
                   playerStats, teamUsageCount, teamLastUsedRound, rounds,
                   roundNumber, warning, error, nextId, repairIds, validation,
                   firstRun, restStats,
                   schedules, response, served, created, toggleCount,
                   request>>
    /\ UNCHANGED clientVars

Next == Generate \/ ScheduleRound \/ Return

Spec == Init /\ [][Next]_vars

(* A second call of generateSchedule after the first has returned or       *)
(* thrown: with the same arguments or with the deduplicated player list,   *)
(* and with the id generator replaying its sequence.  firstRun keeps the   *)
(* first call's arguments, result and final statistics.                    *)
CallAgain ==
    /\ pc \in {"done", "error"}
    /\ firstRun = <<>>
    /\ firstRun' = <<[inputPlayers |-> inputPlayers, rounds |-> rounds,
                      warning |-> warning, error |-> error,
                      playerStats |-> playerStats]>>
    /\ \E again \in {inputPlayers, Dedup(inputPlayers)} : inputPlayers' = again
    /\ pc' = "start"
    /\ players' = <<>>
    /\ remainingMatches' = <<>>
    /\ playerStats' = <<>>
    /\ teamUsageCount' = <<>>
    /\ teamLastUsedRound' = <<>>
    /\ rounds' = <<>>
    /\ roundNumber' = 0
    /\ warning' = "none"
    /\ error' = "none"
    /\ nextId' = 0
    /\ repairIds' = {}
    /\ exitReason' = "none"
    /\ UNCHANGED <<courts, matchType, validation, restStats,
                   schedules, response, served, created, toggleCount,
                   request>>
    /\ UNCHANGED clientVars

TwoRunInputs ==
    {[players |-> Roster(n), courts |-> c, matchType |-> "singles"] :
        n \in (MinPlayers - 1)..6, c \in 1..MaxCourts} \cup
    {[players |-> Roster(5), courts |-> 1, matchType |-> "doubles"],
     [players |-> <<1, 2, 3, 4, 5, 5, 6>>, courts |-> 2, matchType |-> "singles"],
     [players |-> <<3, 1, 3, 2, 5, 4, 1, 6>>, courts |-> 3, matchType |-> "singles"],
     [players |-> <<2, 2, 1, 5, 4, 3, 5>>, courts |-> 1, matchType |-> "doubles"],
     [players |-> <<1, 1, 2, 2, 3, 3>>, courts |-> 1, matchType |-> "singles"]}

TwoRunNext == Next \/ CallAgain

TwoRunSpec == InitWith(TwoRunInputs) /\ [][TwoRunNext]_vars

(* The configurations of the "CRITICAL" consecutive-rest tests that the    *)
(* model can run, and the 7-player doubles rosters between them            *)
ScenarioInputs ==
    {[players |-> Roster(5), courts |-> 1, matchType |-> "singles"]} \cup
    {[players |-> Roster(n), courts |-> c, matchType |-> "doubles"] :
        n \in 5..7, c \in 1..2} \cup
    {[players |-> Roster(8), courts |-> 1, matchType |-> "doubles"]}

ScenarioSpec == InitWith(ScenarioInputs) /\ [][Next]_vars

(* Rosters of up to 11 players whose rounds sort fewer than 64 candidates *)
BalanceInputs ==
    {[players |-> Roster(n), courts |-> c, matchType |-> "singles"] :
        n \in MinPlayers..MaxBalanceSingles, c \in 1..MaxCourts} \cup
    {[players |-> Roster(n), courts |-> c, matchType |-> "doubles"] :
        n \in MinPlayers..MaxDoubles, c \in 1..MaxCourts} \cup
    {[players |-> <<1, 2, 3, 4, 5, 5, 6>>, courts |-> 2, matchType |-> "singles"]}

BalanceSpec == InitWith(BalanceInputs) /\ [][Next]_vars

(* Rosters around the large-N threshold, on enough courts for whole rounds *)
LargeInputs ==
    {[players |-> Roster(n), courts |-> c, matchType |-> "singles"] :
        n \in (LargeN - 1)..MaxLarge, c \in (LargeCourts - 2)..LargeCourts} \cup
    {[players |-> Roster(LargeN) \o <<1, 2>>, courts |-> LargeCourts,
      matchType |-> "singles"],
     [players |-> <<1>> \o Roster(LargeN + 1) \o <<LargeN + 1>>,
      courts |-> LargeCourts, matchType |-> "singles"]}

LargeSpec == InitWith(LargeInputs) /\ [][Next]_vars

(* Round lists handed to validateSchedule: up to MaxValidateLen rounds of  *)
(* up to two singles matches over three players and two ids; one match     *)
(* names the same player on both sides                                     *)
ValidateMatches ==
    {[teamA |-> <<t[1]>>, teamB |-> <<t[2]>>, id |-> i] :
        t \in {<<1, 2>>, <<1, 3>>, <<2, 3>>, <<1, 1>>}, i \in {1, 2}}

SeqsUpTo(S, n) == UNION {[1..k -> S] : k \in 0..n}

ValidateRounds ==
    {[id |-> <<"r", 0>>, matches |-> ms, resting |-> <<>>, completed |-> FALSE] :
        ms \in [1..0 -> ValidateMatches] \cup [1..1 -> ValidateMatches]
               \cup [1..2 -> ValidateMatches]}

ValidateInit ==
    /\ pc = "given"
    /\ rounds \in SeqsUpTo(ValidateRounds, MaxValidateLen)
    /\ inputPlayers = <<>>
    /\ courts = 1
    /\ matchType = "singles"
    /\ players = <<>>
    /\ remainingMatches = <<>>
    /\ playerStats = <<>>
    /\ teamUsageCount = <<>>
    /\ teamLastUsedRound = <<>>
    /\ roundNumber = 0
    /\ warning = "none"
    /\ error = "none"
    /\ nextId = 0
    /\ repairIds = {}
    /\ exitReason = "none"
    /\ validation = <<>>
    /\ firstRun = <<>>
    /\ restStats = <<>>
    /\ schedules = <<>>
    /\ response = <<>>
    /\ served = 0
    /\ created = <<>>
    /\ toggleCount = <<>>
    /\ request = <<>>
    /\ view = <<>>
    /\ loadingRounds = {}
    /\ calls = {}
    /\ clicks = 0

(* validateSchedule(rounds) is called on the given round list *)
Validate ==
    /\ pc = "given"
    /\ pc' = "validated"
    /\ validation' = <<validateSchedule(rounds)>>
    /\ UNCHANGED <<inputPlayers, courts, matchType, players, remainingMatches,
                   playerStats, teamUsageCount, teamLastUsedRound, rounds,
                   roundNumber, warning, error, nextId, repairIds, exitReason,
                   firstRun, restStats,
                   schedules, response, served, created, toggleCount,
                   request>>
    /\ UNCHANGED clientVars

ValidateSpec == ValidateInit /\ [][Validate]_vars

(* Arguments handed to calculateRestStats: a roster of up to three names,  *)
(* possibly repeated or empty, and up to MaxRestRounds rounds of that      *)
(* roster, each resting list naming roster players once at most            *)
RestRosters == SeqsUpTo({1, 2, 3}, 3)

RestingLists(roster) ==
    {r \in SeqsUpTo(ToSet(roster), 3) : Cardinality(ToSet(r)) = Len(r)}

RestRounds(roster) ==
    {[id |-> <<"r", 0>>, matches |-> <<>>, resting |-> r, completed |-> FALSE] :
        r \in RestingLists(roster)}

RestStatsInit ==
    /\ pc = "given"
    /\ inputPlayers \in RestRosters
    /\ rounds \in SeqsUpTo(RestRounds(inputPlayers), MaxRestRounds)
    /\ courts = 1
    /\ matchType = "singles"
    /\ players = <<>>
    /\ remainingMatches = <<>>
    /\ playerStats = <<>>
    /\ teamUsageCount = <<>>
    /\ teamLastUsedRound = <<>>
    /\ roundNumber = 0
    /\ warning = "none"
    /\ error = "none"
    /\ nextId = 0
    /\ repairIds = {}
    /\ exitReason = "none"
    /\ validation = <<>>
    /\ firstRun = <<>>
    /\ restStats = <<>>
    /\ schedules = <<>>
    /\ response = <<>>
    /\ served = 0
    /\ created = <<>>
    /\ toggleCount = <<>>
    /\ request = <<>>
    /\ view = <<>>
    /\ loadingRounds = {}
    /\ calls = {}
    /\ clicks = 0

(* calculateRestStats(rounds, players) is called on the given arguments *)
CalculateRestStats ==
    /\ pc = "given"
    /\ pc' = "counted"
    /\ restStats' = <<calculateRestStats(rounds, inputPlayers)>>
    /\ UNCHANGED <<inputPlayers, courts, matchType, players, remainingMatches,
                   playerStats, teamUsageCount, teamLastUsedRound, rounds,
                   roundNumber, warning, error, nextId, repairIds, exitReason,
                   validation, firstRun,
                   schedules, response, served, created, toggleCount,
                   request>>
    /\ UNCHANGED clientVars

RestStatsSpec == RestStatsInit /\ [][CalculateRestStats]_vars

-----------------------------------------------------------------------------
(* The store (store.ts) and the HTTP handlers (index.ts) *)

(* this.schedules.set(schedule.id, schedule) *)
saveSchedule(store, schedule) == (schedule.id :> schedule) @@ store

(* this.schedules.get(scheduleId): <<>> is undefined *)
getSchedule(store, scheduleId) ==
    IF scheduleId \in DOMAIN store THEN <<store[scheduleId]>> ELSE <<>>

(* Mutant: a round id that no round has finds the first round *)
FindRoundDefaultsToFirst(rs, roundId) ==
    LET hits == {k \in DOMAIN rs : rs[k].id = roundId}
    IN IF hits = {} THEN Min2(1, Len(rs)) ELSE SetMin(hits)

(* schedule.rounds.find((r) => r.id === roundId): the index, 0 when none *)
FindRound(rs, roundId) ==
    LET hits == {k \in DOMAIN rs : rs[k].id = roundId}
    IN IF hits = {} THEN 0 ELSE SetMin(hits)

(* Mutant: the flag is set instead of inverted *)
toggleRoundCompleteSetsFlag(store, scheduleId, roundId) ==
    IF scheduleId \notin DOMAIN store THEN [store |-> store, result |-> <<>>]
    ELSE LET k == FindRound(store[scheduleId].rounds, roundId)
         IN IF k = 0 THEN [store |-> store, result |-> <<>>]
            ELSE LET toggled ==
                         [store EXCEPT ![scheduleId].rounds[k].completed = TRUE]
                 IN [store |-> toggled, result |-> <<toggled[scheduleId]>>]

(* toggleRoundComplete: the store afterwards and the value returned, <<>> *)
(* for null                                                               *)
toggleRoundComplete(store, scheduleId, roundId) ==
    IF scheduleId \notin DOMAIN store THEN [store |-> store, result |-> <<>>]
    ELSE LET k == FindRound(store[scheduleId].rounds, roundId)
         IN IF k = 0 THEN [store |-> store, result |-> <<>>]
            ELSE LET toggled ==
                         [store EXCEPT ![scheduleId].rounds[k].completed = ~@]
                 IN [store |-> toggled, result |-> <<toggled[scheduleId]>>]

(* Entries of a request's players array: a name, a name with blanks around *)
(* it, a string of blanks only, a value that is no string.  Name 0 is the  *)
(* empty string.                                                           *)
Name(n) == [str |-> TRUE, name |-> n, padded |-> FALSE]
Padded(n) == [str |-> TRUE, name |-> n, padded |-> TRUE]
Blank == [str |-> TRUE, name |-> 0, padded |-> TRUE]
NotString == [str |-> FALSE, name |-> 0, padded |-> FALSE]

(* typeof p === "string" ? p.trim() : "" *)
Trim(p) == IF p.str THEN p.name ELSE 0

(* players.map(trim).filter((p) => p.length > 0) *)
CleanPlayers(raw) == SelectSeq([i \in 1..Len(raw) |-> Trim(raw[i])], LAMBDA n : n # 0)

Body(isArray, raw, isNumber, c, mt) ==
    [playersIsArray |-> isArray, players |-> raw, courtsIsNumber |-> isNumber,
     courts |-> c, matchType |-> mt]

FiveNames == <<Name(1), Name(2), Name(3), Name(4), Name(5)>>
FiveAmongSeven == <<Padded(2), Name(1), Blank, Name(3), NotString, Name(4), Name(5)>>

RawPlayerLists ==
    {<<>>,
     FiveNames,
     <<Name(1), Name(2), Name(3), Name(4), Blank>>,
     <<Name(1), Padded(1), Name(2), Name(3), Name(4)>>,
     <<Name(1), Padded(1), Name(2), Name(3), Name(4), Name(5)>>}

(* Request bodies of POST /api/schedule: every way to fail the validation, *)
(* alone and together, and three bodies that pass it                       *)
Bodies ==
    {Body(TRUE, raw, TRUE, 2, "singles") : raw \in RawPlayerLists} \cup
    {Body(TRUE, FiveAmongSeven, n, c, "doubles") : n \in BOOLEAN, c \in 0..1} \cup
    {Body(TRUE, FiveNames, TRUE, 1, "mixed"),
     Body(FALSE, <<>>, TRUE, 1, "singles"),
     Body(TRUE, <<>>, FALSE, 0, "mixed")}

(* Mutant: the matchType test is left out *)
RequestErrorNoMatchTypeTest(body) ==
    IF ~body.playersIsArray
    THEN "Invalid request: players must be an array of strings"
    ELSE IF Len(body.players) = 0
    THEN "Invalid request: at least one player required"
    ELSE IF ~body.courtsIsNumber \/ body.courts < 1
    THEN "Invalid request: courts must be a number >= 1"
    ELSE IF Len(CleanPlayers(body.players)) < 5
    THEN <<"Invalid request: at least 5 non-empty players required (got ",
           Len(CleanPlayers(body.players)), ")">>
    ELSE "none"

(* The handler's own validation: the error of the 400 response, or "none" *)
RequestError(body) ==
    IF ~body.playersIsArray
    THEN "Invalid request: players must be an array of strings"
    ELSE IF Len(body.players) = 0
    THEN "Invalid request: at least one player required"
    ELSE IF ~body.courtsIsNumber \/ body.courts < 1
    THEN "Invalid request: courts must be a number >= 1"
    ELSE IF body.matchType # "singles" /\ body.matchType # "doubles"
    THEN "Invalid request: matchType must be \"singles\" or \"doubles\""
    ELSE IF Len(CleanPlayers(body.players)) < 5
    THEN <<"Invalid request: at least 5 non-empty players required (got ",
           Len(CleanPlayers(body.players)), ")">>
    ELSE "none"

(* Ids a request can name: the stored ones and one that was never issued *)
ScheduleIds == DOMAIN schedules \cup {<<"sch_", 0>>}

RoundIds ==
    {<<"r", 0>>} \cup
    UNION {{schedules[s].rounds[k].id : k \in DOMAIN schedules[s].rounds} :
              s \in DOMAIN schedules}

(* POST /api/schedule up to the call of generateSchedule: a request that   *)
(* fails the handler's validation is answered at once                      *)
PostSchedule ==
    /\ pc = "idle"
    /\ served < MaxRequests
    /\ \E body \in Bodies :
          LET bad == RequestError(body)
          IN /\ request' = <<body>>
             /\ IF bad # "none"
                THEN /\ response' = <<[op |-> "create", status |-> 400, error |-> bad]>>
                     /\ served' = served + 1
                     /\ UNCHANGED <<pc, inputPlayers, courts, matchType>>
                ELSE /\ pc' = "start"
                     /\ inputPlayers' = CleanPlayers(body.players)
                     /\ courts' = body.courts
                     /\ matchType' = body.matchType
                     /\ UNCHANGED <<response, served>>
    /\ players' = <<>>
    /\ remainingMatches' = <<>>
    /\ playerStats' = <<>>
    /\ teamUsageCount' = <<>>
    /\ teamLastUsedRound' = <<>>
    /\ rounds' = <<>>
    /\ roundNumber' = 0
    /\ warning' = "none"
    /\ error' = "none"
    /\ repairIds' = {}
    /\ exitReason' = "none"
    /\ UNCHANGED <<nextId, validation, firstRun, restStats, schedules, created,
                   toggleCount>>
    /\ UNCHANGED clientVars

(* POST /api/schedule after generateSchedule returned or threw *)
Respond ==
    /\ pc \in {"done", "error"}
    /\ IF pc = "error"
       THEN /\ response' = <<[op |-> "create", status |-> 400, error |-> error]>>
            /\ UNCHANGED <<schedules, created, nextId>>
       ELSE LET scheduleId == <<"sch_", nextId + 1>>
                schedule == [id |-> scheduleId, players |-> inputPlayers,
                             courts |-> courts, matchType |-> matchType,
                             rounds |-> rounds]
            IN /\ schedules' = saveSchedule(schedules, schedule)
               /\ nextId' = nextId + 1
               /\ response' = <<[op |-> "create", status |-> 201,
                                 scheduleId |-> scheduleId, rounds |-> rounds,
                                 warning |-> warning]>>
               /\ created' = (scheduleId :> rounds) @@ created
    /\ pc' = "idle"
    /\ served' = served + 1
    /\ UNCHANGED <<inputPlayers, courts, matchType, players, remainingMatches,
                   playerStats, teamUsageCount, teamLastUsedRound, rounds,
                   roundNumber, warning, error, repairIds, exitReason, validation,
                   firstRun, restStats, toggleCount, request>>
    /\ UNCHANGED clientVars

(* GET /api/schedule/:scheduleId *)
GetSchedule ==
    /\ pc = "idle"
    /\ served < MaxRequests
    /\ \E scheduleId \in ScheduleIds :
          LET schedule == getSchedule(schedules, scheduleId)
          IN response' =
                IF schedule = <<>>
                THEN <<[op |-> "read", status |-> 404, scheduleId |-> scheduleId]>>
                ELSE <<[op |-> "read", status |-> 200, scheduleId |-> schedule[1].id,
                        rounds |-> schedule[1].rounds, players |-> schedule[1].players,
                        courts |-> schedule[1].courts,
                        matchType |-> schedule[1].matchType]>>
    /\ served' = served + 1
    /\ UNCHANGED <<pc, inputPlayers, courts, matchType, players, remainingMatches,
                   playerStats, teamUsageCount, teamLastUsedRound, rounds,
                   roundNumber, warning, error, nextId, repairIds, exitReason,
                   validation, firstRun, restStats, schedules, created, toggleCount,
                   request>>
    /\ UNCHANGED clientVars

(* POST /api/schedule/:scheduleId/round/:roundId/complete *)
ToggleRound ==
    /\ pc = "idle"
    /\ served < MaxRequests
    /\ \E scheduleId \in ScheduleIds : \E roundId \in RoundIds :
          LET toggled == toggleRoundComplete(schedules, scheduleId, roundId)
          IN /\ schedules' = toggled.store
             /\ IF toggled.result = <<>>
                THEN /\ response' = <<[op |-> "toggle", status |-> 404,
                                       scheduleId |-> scheduleId, roundId |-> roundId]>>
                     /\ UNCHANGED toggleCount
                ELSE LET schedule == toggled.result[1]
                         k == FindRound(schedule.rounds, roundId)
                         key == <<scheduleId, roundId>>
                     IN /\ response' = <<[op |-> "toggle", status |-> 200,
                                          scheduleId |-> schedule.id, roundId |-> roundId,
                                          completed |-> schedule.rounds[k].completed]>>
                        /\ toggleCount' =
                              (key :> (IF key \in DOMAIN toggleCount
                                       THEN toggleCount[key] + 1 ELSE 1)) @@ toggleCount
    /\ served' = served + 1
    /\ UNCHANGED <<pc, inputPlayers, courts, matchType, players, remainingMatches,
                   playerStats, teamUsageCount, teamLastUsedRound, rounds,
                   roundNumber, warning, error, nextId, repairIds, exitReason,
                   validation, firstRun, restStats, created, request>>
    /\ UNCHANGED clientVars

ServerInit ==
    /\ pc = "idle"
    /\ inputPlayers = <<>>
    /\ courts = 1
    /\ matchType = "singles"
    /\ players = <<>>
    /\ remainingMatches = <<>>
    /\ playerStats = <<>>
    /\ teamUsageCount = <<>>
    /\ teamLastUsedRound = <<>>
    /\ rounds = <<>>
    /\ roundNumber = 0
    /\ warning = "none"
    /\ error = "none"
    /\ nextId = 0
    /\ repairIds = {}
    /\ exitReason = "none"
    /\ validation = <<>>
    /\ firstRun = <<>>
    /\ restStats = <<>>
    /\ schedules = <<>>
    /\ response = <<>>
    /\ served = 0
    /\ created = <<>>
    /\ toggleCount = <<>>
    /\ request = <<>>
    /\ view = <<>>
    /\ loadingRounds = {}
    /\ calls = {}
    /\ clicks = 0

ServerNext ==
    \/ PostSchedule
    \/ Generate
    \/ ScheduleRound
    \/ Return
    \/ Respond
    \/ GetSchedule
    \/ ToggleRound

ServerSpec == ServerInit /\ [][ServerNext]_vars

-----------------------------------------------------------------------------
(* The browser client: the form creates a schedule, the schedule view      *)
(* toggles rounds.  A click starts handleToggleComplete, which keeps the   *)
(* schedule prop of the render it was created in; its request and its      *)
(* response travel independently of those of other clicks.                 *)

(* What the form sends: five trimmed names, a whole number of courts *)
ClientBodies == {Body(TRUE, FiveNames, TRUE, c, "singles") : c \in 1..2}

(* The variables a toggle request leaves alone on the server *)
callVars == <<pc, inputPlayers, courts, matchType, players, remainingMatches,
              playerStats, teamUsageCount, teamLastUsedRound, rounds, roundNumber,
              warning, error, nextId, repairIds, exitReason, validation, firstRun,
              restStats, created, request>>

(* SchedulerForm.handleSubmit up to the request: createSchedule is sent *)
SubmitForm ==
    /\ view = <<>>
    /\ served = 0
    /\ PostSchedule
    /\ request' \in {<<body>> : body \in ClientBodies}

(* handleSubmit after the 201 response: onScheduleGenerated(schedule) *)
ShowSchedule ==
    /\ view = <<>>
    /\ response # <<>>
    /\ response[1].status = 201
    /\ view' = <<[scheduleId |-> response[1].scheduleId, rounds |-> response[1].rounds]>>
    /\ UNCHANGED <<callVars, schedules, response, served, toggleCount,
                   loadingRounds, calls, clicks>>

(* A click on the button of a round that is not loading:                   *)
(* handleToggleComplete up to its await                                    *)
ClickToggle ==
    /\ view # <<>>
    /\ clicks < MaxClicks
    /\ \E k \in DOMAIN view[1].rounds :
          LET roundId == view[1].rounds[k].id
          IN /\ roundId \notin loadingRounds
             /\ loadingRounds' = loadingRounds \cup {roundId}
             /\ calls' = calls \cup
                   {[roundId |-> roundId, schedule |-> view[1], stage |-> "sent",
                     status |-> 0, completed |-> FALSE]}
    /\ clicks' = clicks + 1
    /\ UNCHANGED <<callVars, schedules, response, served, toggleCount, view>>

(* The server handles the toggle request of one of the pending calls *)
ServeToggle ==
    /\ pc = "idle"
    /\ \E c \in calls :
          /\ c.stage = "sent"
          /\ LET scheduleId == c.schedule.scheduleId
                 toggled == toggleRoundComplete(schedules, scheduleId, c.roundId)
             IN /\ schedules' = toggled.store
                /\ IF toggled.result = <<>>
                   THEN /\ response' = <<[op |-> "toggle", status |-> 404,
                                          scheduleId |-> scheduleId,
                                          roundId |-> c.roundId]>>
                        /\ calls' = (calls \ {c}) \cup
                              {[c EXCEPT !.stage = "answered", !.status = 404]}
                        /\ UNCHANGED toggleCount
                   ELSE LET schedule == toggled.result[1]
                            k == FindRound(schedule.rounds, c.roundId)
                            key == <<scheduleId, c.roundId>>
                        IN /\ response' = <<[op |-> "toggle", status |-> 200,
                                             scheduleId |-> schedule.id,
                                             roundId |-> c.roundId,
                                             completed |-> schedule.rounds[k].completed]>>
                           /\ calls' = (calls \ {c}) \cup
                                 {[c EXCEPT !.stage = "answered", !.status = 200,
                                            !.completed = schedule.rounds[k].completed]}
                           /\ toggleCount' =
                                 (key :> (IF key \in DOMAIN toggleCount
                                          THEN toggleCount[key] + 1 ELSE 1)) @@ toggleCount
    /\ served' = served + 1
    /\ UNCHANGED <<callVars, view, loadingRounds, clicks>>

(* schedule.rounds.map(...) of handleToggleComplete *)
updatedRounds(rs, roundId, completed) ==
    [k \in DOMAIN rs |->
        IF rs[k].id = roundId THEN [rs[k] EXCEPT !.completed = completed] ELSE rs[k]]

(* handleToggleComplete after its await: the response of one call arrives *)
ResolveToggle ==
    /\ \E c \in calls :
          /\ c.stage = "answered"
          /\ IF c.status = 200
             THEN view' = <<[c.schedule EXCEPT
                                !.rounds = updatedRounds(@, c.roundId, c.completed)]>>
             ELSE UNCHANGED view
          /\ loadingRounds' = loadingRounds \ {c.roundId}
          /\ calls' = calls \ {c}
    /\ UNCHANGED <<callVars, schedules, response, served, toggleCount, clicks>>

ClientNext ==
    \/ SubmitForm
    \/ Generate
    \/ ScheduleRound
    \/ Return
    \/ Respond
    \/ ShowSchedule
    \/ ClickToggle
    \/ ServeToggle
    \/ ResolveToggle

ClientSpec == ServerInit /\ [][ClientNext]_vars

-----------------------------------------------------------------------------
(* Properties *)

Roster0 == ToSet(Dedup(inputPlayers))
TeamSize == IF matchType = "singles" THEN 1 ELSE 2
Threshold == MaxConsecutiveRestsFor(Cardinality(Roster0))

(* Unordered pair of canonical team keys *)
MatchKey(m) == {getTeamKey(m.teamA), getTeamKey(m.teamB)}

(* Positions <<round, index>> of the scheduled matches *)
Positions == UNION {{<<k, i>> : i \in DOMAIN rounds[k].matches} : k \in DOMAIN rounds}
MatchAt(pos) == rounds[pos[1]].matches[pos[2]]
IsRepair(m) == m.id \in repairIds

(* p is in `resting` in each of the rounds i .. i + extra *)
RestsThrough(p, i, extra) == \A j \in i..(i + extra) : p \in ToSet(rounds[j].resting)
(* p rests in more than `limit` consecutive rounds somewhere in the schedule *)
RestRunOver(p, limit) ==
    \E i \in 1..(Len(rounds) - limit) : RestsThrough(p, i, limit)

(* A match appended by repair has the composition of a match of an earlier round *)
RepairRepeatsEarlier ==
    \E pos \in Positions : \E old \in Positions :
        /\ IsRepair(MatchAt(pos))
        /\ old[1] < pos[1]
        /\ MatchKey(MatchAt(old)) = MatchKey(MatchAt(pos))

(* C1: in every round no player appears in more than one match, also in   *)
(* the rounds to which urgency repair appended matches.                    *)
C1_DisjointPlayersInRound ==
    \A k \in DOMAIN rounds :
        \A i, j \in DOMAIN rounds[k].matches :
            i # j => getMatchPlayers(rounds[k].matches[i]) \cap
                     getMatchPlayers(rounds[k].matches[j]) = {}

C1_Witness ==
    \E k \in DOMAIN rounds :
        /\ Len(rounds[k].matches) >= 2
        /\ \E i \in DOMAIN rounds[k].matches : IsRepair(rounds[k].matches[i])

(* C2: no roster player is in `resting` in more than T consecutive rounds, *)
(* T = 1 for at most 7 players and 2 otherwise, for every valid input.     *)
C2_RestCap == \A p \in Roster0 : ~RestRunOver(p, Threshold)

(* C3: no player rests more than 2 consecutive rounds for 5 players on 1   *)
(* court in singles and for doubles with 5..11 players on 1 or 2 courts.   *)
C3_Scope ==
    \/ matchType = "singles" /\ Cardinality(Roster0) = 5 /\ courts = 1
    \/ matchType = "doubles" /\ Cardinality(Roster0) \in 5..11 /\ courts \in 1..2

C4_RestPartition ==
    \A k \in DOMAIN rounds :
        LET playing == PlayersOf(rounds[k].matches)
            resting == rounds[k].resting
        IN /\ playing \cap ToSet(resting) = {}
           /\ playing \cup ToSet(resting) = Roster0
           /\ Cardinality(ToSet(resting)) = Len(resting)

C4_Witness ==
    \E k \in DOMAIN rounds :
        /\ Len(rounds[k].matches) >= 2
        /\ Len(rounds[k].resting) >= 1
        /\ Len(inputPlayers) > Cardinality(Roster0)

(* C5: every match of every round, from the pool or from repair, has two   *)
(* teams of teamSize players that share no player: 2*teamSize distinct     *)
(* roster players.                                                         *)
C5_TeamShape ==
    \A pos \in Positions :
        LET m == MatchAt(pos)
        IN /\ Len(m.teamA) = TeamSize
           /\ Len(m.teamB) = TeamSize
           /\ ToSet(m.teamA) \cap ToSet(m.teamB) = {}
           /\ Cardinality(getMatchPlayers(m)) = 2 * TeamSize
           /\ getMatchPlayers(m) \subseteq Roster0

C5_Witness ==
    /\ matchType = "doubles"
    /\ \E k \in DOMAIN rounds : Len(rounds[k].matches) >= 1 /\ k >= 2

(* C6: match ids are pairwise distinct over the whole schedule, also when  *)
(* repair appends a match with the composition of an earlier match.        *)
C6_UniqueMatchIds ==
    \A pa, pb \in Positions : pa # pb => MatchAt(pa).id # MatchAt(pb).id

C6_Witness == RepairRepeatsEarlier

AllMatchesScheduled ==
    LET pairs == MatchPairs(generateTeams(Dedup(inputPlayers), matchType))
        scheduled == {MatchKey(MatchAt(pos)) : pos \in Positions}
    IN \A k \in DOMAIN pairs : {getTeamKey(pairs[k][1]), getTeamKey(pairs[k][2])} \in scheduled

(* C8: every valid match of the roster is eventually scheduled: it appears *)
(* in at least one round of the returned schedule.                         *)
C8_EventuallyScheduled == pc = "done" => AllMatchesScheduled

C8_Witness ==
    /\ pc = "done"
    /\ Cardinality(Roster0) > SmallRoster
    /\ AllMatchesScheduled

(* C9: for 5 players in singles, whatever the courts, the schedule holds   *)
(* exactly 10 matches, the 10 distinct pairs of players.                   *)
C9_FiveSingles ==
    (pc = "done" /\ matchType = "singles" /\ Cardinality(Roster0) = 5)
        => /\ Cardinality(Positions) = 10
           /\ {MatchKey(MatchAt(pos)) : pos \in Positions} =
                 {{<<a>>, <<b>>} : a, b \in Roster0} \ {{<<a>>} : a \in Roster0}

C9_Witness ==
    /\ pc = "done"
    /\ matchType = "singles"
    /\ Cardinality(Roster0) = 5
    /\ courts >= 2
    /\ Len(rounds) = 5

(* C10: with one court every round has exactly one match and               *)
(* N - 2*teamSize resting players.                                         *)
C10_OneCourt ==
    courts = 1 =>
        \A k \in DOMAIN rounds :
            /\ Len(rounds[k].matches) = 1
            /\ Len(rounds[k].resting) = Cardinality(Roster0) - 2 * TeamSize

C10_Witness ==
    /\ courts = 1
    /\ matchType = "doubles"
    /\ Cardinality(Roster0) = 6
    /\ Len(rounds) >= 3

(* The most matches a round can hold: one per court, 2*teamSize players each *)
MaxSimultaneous == Min2(courts, Cardinality(Roster0) \div (2 * TeamSize))

(* C11: every round has at least one match and at most                     *)
(* min(courts, floor(N / (2*teamSize))) matches; surplus courts stay       *)
(* unused.                                                                 *)
C11_MatchesPerRound ==
    \A k \in DOMAIN rounds :
        /\ Len(rounds[k].matches) >= 1
        /\ Len(rounds[k].matches) <= MaxSimultaneous

C11_Witness ==
    /\ courts > Cardinality(Roster0) \div (2 * TeamSize)
    /\ \E k \in DOMAIN rounds :
          /\ k >= 2
          /\ Len(rounds[k].matches) = Cardinality(Roster0) \div (2 * TeamSize)
          /\ Len(rounds[k].matches) >= 2

(* max_diff of the schedule built so far, as the tests compute it *)
MaxDiff == calculateRestStats(rounds, inputPlayers).maxDiff

C13_OddDoublesBalance ==
    (pc = "done" /\ matchType = "doubles" /\ courts = 1
        /\ Cardinality(Roster0) \in {5, 7})
        => MaxDiff <= 1

C13_Witness ==
    /\ pc = "done"
    /\ matchType = "doubles"
    /\ courts = 1
    /\ Cardinality(Roster0) = 7
    /\ Len(rounds) = 105

(* The input has a duplicate name; fewer than 5 unique players; no court *)
HasDuplicates == Len(inputPlayers) > Cardinality(Roster0)
TooFewPlayers == Cardinality(Roster0) < MinPlayers
NoCourt == courts < 1

(* The thrown text is the template with "unique players remain" *)
IsRemainText(e) ==
    /\ e # "none"
    /\ e # "At least 5 unique players required"
    /\ e # "At least 1 court required"
    /\ Len(e) = 5
    /\ e[1] = "After removing "
    /\ e[2] = Len(inputPlayers) - Cardinality(Roster0)
    /\ e[3] = " duplicate(s), only "
    /\ e[4] = Cardinality(Roster0)
    /\ e[5] = " unique players remain. Minimum 5 required."

(* C14: generateSchedule throws, before any round exists, exactly when     *)
(* fewer than 5 unique players remain or courts < 1, with the text of the  *)
(* first failed test; in every other case it goes on to return a schedule. *)
C14_ValidationErrors ==
    pc # "start" =>
        /\ (pc = "error") <=> (TooFewPlayers \/ NoCourt)
        /\ pc = "error" => rounds = <<>> /\ remainingMatches = <<>>
        /\ (TooFewPlayers /\ HasDuplicates) => IsRemainText(error)
        /\ (TooFewPlayers /\ ~HasDuplicates) => error = "At least 5 unique players required"
        /\ (~TooFewPlayers /\ NoCourt) => error = "At least 1 court required"
        /\ pc # "error" => error = "none"

C14_Witness ==
    /\ pc = "error"
    /\ TooFewPlayers /\ HasDuplicates /\ NoCourt
    /\ IsRemainText(error)

(* Index of the first occurrence of x in s *)
FirstIndex(s, x) == SetMin({i \in DOMAIN s : s[i] = x})

(* u holds each name of s once, in the order of the first occurrences in s *)
IsFirstOccurrenceOrder(u, s) ==
    /\ ToSet(u) = ToSet(s)
    /\ \A i, j \in DOMAIN u : i < j => FirstIndex(s, u[i]) < FirstIndex(s, u[j])

(* C15: duplicate names are removed keeping each name's first occurrence;  *)
(* normalising twice changes nothing; the call on the deduplicated list    *)
(* returns the schedule of the call on the list with the duplicates.       *)
C15_Deduplication ==
    /\ pc \in {"loop", "done"} =>
          /\ IsFirstOccurrenceOrder(players, inputPlayers)
          /\ Dedup(players) = players
    /\ (pc = "done" /\ firstRun # <<>>
            /\ inputPlayers = Dedup(firstRun[1].inputPlayers))
          => /\ rounds = firstRun[1].rounds
             /\ warning = firstRun[1].warning

C15_Witness ==
    /\ pc = "done"
    /\ firstRun # <<>>
    /\ Len(firstRun[1].inputPlayers) > Len(inputPlayers)
    /\ firstRun[1].inputPlayers[1] # 1
    /\ Len(rounds) >= 2

(* C16: the returned warning is "large_n; fallback_to_greedy" if and only  *)
(* if the deduplicated roster has more than 16 players; otherwise there is *)
(* no warning.                                                             *)
C16_LargeWarning ==
    pc \in {"loop", "done"} =>
        /\ (warning = "large_n; fallback_to_greedy") <=> (Cardinality(Roster0) > 16)
        /\ Cardinality(Roster0) <= 16 => warning = "none"

C16_Witness ==
    /\ pc = "done"
    /\ Len(inputPlayers) > Cardinality(Roster0)
    /\ Cardinality(Roster0) = 17
    /\ warning = "large_n; fallback_to_greedy"

(* A step of the call: validation leaves "start"; an iteration either      *)
(* leaves the loop through one of its four exits or commits a round, which *)
(* advances roundNumber below the cap and strictly shrinks the pool;       *)
(* nothing follows the return or the throw.                                *)
TerminatingStep ==
    /\ pc = "start" => pc' \in {"loop", "error"}
    /\ pc = "loop" =>
          \/ /\ pc' = "done"
             /\ exitReason' \in {"exhausted", "gate", "empty", "cap"}
             /\ rounds' = rounds
          \/ /\ pc' = "loop"
             /\ roundNumber' = roundNumber + 1
             /\ roundNumber' <= maxIterations
             /\ Len(rounds') = roundNumber'
             /\ Len(remainingMatches') < Len(remainingMatches)
    /\ pc \notin {"start", "loop"} => FALSE

(* C17: generateSchedule terminates for every valid input: the loop        *)
(* reaches one of its exits after finitely many rounds.                    *)
C17_Terminates == [][TerminatingStep]_vars

C17_Witness ==
    /\ pc = "done"
    /\ exitReason = "exhausted"
    /\ roundNumber >= 10
    /\ Len(rounds) = roundNumber

C19_RoundIds ==
    \A k \in DOMAIN rounds :
        /\ rounds[k].id = <<"r", k>>
        /\ rounds[k].completed = FALSE

C19_Witness ==
    /\ pc = "done"
    /\ Len(rounds) >= 3
    /\ rounds[3].id = <<"r", 3>>
    /\ \E k \in DOMAIN rounds : Len(rounds[k].matches) >= 2

(* Some player is in two matches of one round of rs *)
PlayerInTwoMatches(rs) ==
    \E k \in DOMAIN rs : \E i, j \in DOMAIN rs[k].matches :
        i # j /\ getMatchPlayers(rs[k].matches[i]) \cap
                 getMatchPlayers(rs[k].matches[j]) # {}

(* Some match id occurs twice in rs *)
MatchIdTwice(rs) ==
    \E k, l \in DOMAIN rs : \E i \in DOMAIN rs[k].matches : \E j \in DOMAIN rs[l].matches :
        <<k, i>> # <<l, j>> /\ rs[k].matches[i].id = rs[l].matches[j].id

(* C20: validateSchedule returns valid = true exactly when no player is in *)
(* two matches of a round and no match id occurs twice in the round list;  *)
(* valid is true if and only if errors is empty.                           *)
C20_ValidateSchedule ==
    pc = "validated" =>
        /\ validation[1].valid <=> (~PlayerInTwoMatches(rounds) /\ ~MatchIdTwice(rounds))
        /\ validation[1].valid <=> (validation[1].errors = <<>>)

C20_Witness ==
    /\ pc = "validated"
    /\ ~validation[1].valid
    /\ Len(validation[1].errors) = 1
    /\ PlayerInTwoMatches(rounds)
    /\ ~MatchIdTwice(rounds)

(* Number of rounds of rs whose resting list contains p *)
RoundsResting(rs, p) == Cardinality({k \in DOMAIN rs : p \in ToSet(rs[k].resting)})

(* C21: calculateRestStats returns, for every player of the roster, the    *)
(* number of rounds whose resting list contains the player, 0 included and *)
(* no player omitted, and maxDiff is the largest minus the smallest count. *)
C21_RestStats ==
    pc = "counted" =>
        LET res == restStats[1]
            roster == ToSet(inputPlayers)
            wanted == {RoundsResting(rounds, p) : p \in roster}
        IN /\ roster \subseteq DOMAIN res.restCounts
           /\ \A p \in roster : res.restCounts[p] = RoundsResting(rounds, p)
           /\ roster # {} =>
                 /\ \E hi \in wanted : \E lo \in wanted :
                       /\ \A c \in wanted : lo <= c /\ c <= hi
                       /\ res.maxDiff = hi - lo

C21_Witness ==
    /\ pc = "counted"
    /\ Len(inputPlayers) > Cardinality(ToSet(inputPlayers))
    /\ \E p \in ToSet(inputPlayers) :
          /\ RoundsResting(rounds, p) = 0
          /\ restStats[1].restCounts[p] = 0
    /\ restStats[1].maxDiff = 2

(* Number of successful toggle calls on round rid of schedule s so far *)
Toggles(s, rid) == IF <<s, rid>> \in DOMAIN toggleCount THEN toggleCount[<<s, rid>>] ELSE 0

(* C22: each successful toggleRoundComplete call inverts the completed     *)
(* flag of the named round of the named schedule and changes nothing else  *)
(* in the store: every stored round is the round that was created, with    *)
(* completed true exactly when the round was toggled an odd number of      *)
(* times, and the answer carries the new flag.                             *)
C22_ToggleInverts ==
    /\ DOMAIN schedules = DOMAIN created
    /\ \A s \in DOMAIN schedules :
          /\ Len(schedules[s].rounds) = Len(created[s])
          /\ \A k \in DOMAIN created[s] :
                schedules[s].rounds[k] =
                    [created[s][k] EXCEPT
                        !.completed = (Toggles(s, created[s][k].id) % 2 = 1)]
    /\ (response # <<>> /\ response[1].op = "toggle" /\ response[1].status = 200)
          => LET s == response[1].scheduleId
                 k == FindRound(schedules[s].rounds, response[1].roundId)
             IN /\ k # 0
                /\ response[1].completed = schedules[s].rounds[k].completed
                /\ response[1].completed = (Toggles(s, response[1].roundId) % 2 = 1)

C22_Witness ==
    /\ response # <<>>
    /\ response[1].op = "toggle"
    /\ response[1].status = 200
    /\ Toggles(response[1].scheduleId, response[1].roundId) = 2
    /\ ~response[1].completed
    /\ response[1].roundId # <<"r", 1>>

(* Schedule s is stored and has a round with id rid *)
KnownRound(s, rid) ==
    /\ s \in DOMAIN schedules
    /\ \E k \in DOMAIN schedules[s].rounds : schedules[s].rounds[k].id = rid

(* A step that answers a toggle or a read request *)
NotFoundStep ==
    (served' = served + 1 /\ response'[1].op \in {"toggle", "read"}) =>
        LET r == response'[1]
        IN /\ r.status \in {200, 404}
           /\ r.op = "toggle" =>
                 ((r.status = 404) <=> ~KnownRound(r.scheduleId, r.roundId))
           /\ r.op = "read" =>
                 /\ (r.status = 404) <=> (r.scheduleId \notin DOMAIN schedules)
                 /\ schedules' = schedules
           /\ r.status = 404 =>
                 /\ schedules' = schedules
                 /\ toggleCount' = toggleCount

(* C23: a toggle that names an unknown schedule, or an unknown round of a  *)
(* known schedule, is answered 404 and changes no stored schedule; a read  *)
(* of an unknown schedule is answered 404 and changes nothing; requests    *)
(* that name stored things are not answered 404.                           *)
C23_NotFound == [][NotFoundStep]_vars

C23_Witness ==
    /\ response # <<>>
    /\ response[1].op = "toggle"
    /\ response[1].status = 404
    /\ response[1].scheduleId \in DOMAIN schedules
    /\ \E s \in DOMAIN schedules : \E k \in DOMAIN schedules[s].rounds :
          schedules[s].rounds[k].completed

(* The non-empty trimmed names of a players array, as positions and as names *)
NamedEntries(raw) == {i \in DOMAIN raw : raw[i].str /\ raw[i].name # 0}
UniqueNames(raw) == {raw[i].name : i \in NamedEntries(raw)}

(* The create request fails the validation *)
InvalidRequest(body) ==
    \/ ~body.playersIsArray
    \/ body.players = <<>>
    \/ ~body.courtsIsNumber
    \/ body.courts < 1
    \/ body.matchType \notin {"singles", "doubles"}
    \/ Cardinality(NamedEntries(body.players)) < 5
    \/ Cardinality(UniqueNames(body.players)) < 5

(* No successful toggle on a round of schedule s so far *)
NeverToggled(s) == \A key \in DOMAIN toggleCount : key[1] # s

(* A step that answers a create or a read request *)
CreateStep ==
    (served' = served + 1 /\ response'[1].op \in {"create", "read"}) =>
        LET r == response'[1]
        IN /\ r.op = "create" =>
                 /\ r.status \in {400, 201}
                 /\ (r.status = 400) <=> InvalidRequest(request'[1])
                 /\ r.status = 400 => schedules' = schedules
                 /\ r.status = 201 =>
                       /\ r.scheduleId \notin DOMAIN schedules
                       /\ DOMAIN schedules' = DOMAIN schedules \cup {r.scheduleId}
                       /\ \A s \in DOMAIN schedules : schedules'[s] = schedules[s]
                       /\ schedules'[r.scheduleId].rounds = r.rounds
                       /\ created'[r.scheduleId] = r.rounds
           /\ (r.op = "read" /\ r.status = 200) =>
                 /\ r.rounds = schedules[r.scheduleId].rounds
                 /\ NeverToggled(r.scheduleId) => r.rounds = created[r.scheduleId]

(* C24: a create request that fails the validation is answered 400 and     *)
(* stores no schedule; one that passes is answered 201 with a new          *)
(* scheduleId, and a later read under that id returns the rounds of the    *)
(* 201 answer as long as no round of it was toggled.                       *)
C24_CreateAndRead == [][CreateStep]_vars

C24_Witness ==
    /\ response # <<>>
    /\ response[1].op = "read"
    /\ response[1].status = 200
    /\ Cardinality(DOMAIN schedules) = 2
    /\ response[1].rounds = created[response[1].scheduleId]
    /\ Len(response[1].players) > Cardinality(ToSet(response[1].players))

(* The step commits a round *)
CommitsRound == pc = "loop" /\ Len(rounds') = Len(rounds) + 1

(* The round the step commits *)
CommittedRound == rounds'[Len(rounds')]

(* C25: whenever a round is committed, every player who is urgent at the   *)
(* top of that iteration (roundNumber - lastPlayedRound has reached        *)
(* maxConsecutiveRests) plays in the round.                                *)
C25_UrgentPlayersPlay ==
    [][CommitsRound =>
          UrgentPlayers(players, playerStats, roundNumber)
              \subseteq PlayersOf(CommittedRound.matches)]_vars

(* The gate's situation at the top of the iteration: some player is urgent *)
(* and no match of the remaining pool holds an urgent player               *)
GateSituation ==
    LET urgent == UrgentPlayers(players, playerStats, roundNumber)
    IN /\ urgent # {}
       /\ \A k \in DOMAIN remainingMatches :
             getMatchPlayers(remainingMatches[k]) \cap urgent = {}

(* C26: an iteration that starts in the gate's situation ends scheduling   *)
(* at once, with the rounds committed so far and without packing or        *)
(* repairing; the gate ends scheduling in that situation only.             *)
C26_GateStops ==
    [][/\ (pc = "loop" /\ remainingMatches # <<>> /\ roundNumber < maxIterations
              /\ GateSituation)
          => (pc' = "done" /\ exitReason' = "gate" /\ rounds' = rounds
                /\ nextId' = nextId /\ repairIds' = repairIds)
       /\ (pc = "loop" /\ exitReason' = "gate")
          => (GateSituation /\ pc' = "done")]_vars

C26_Witness == pc = "done" /\ exitReason = "gate"

(* C27: whenever a round is committed in an iteration in which some player *)
(* is urgent, the first match of the round holds at least one urgent       *)
(* player.                                                                 *)
C27_FirstMatchUrgent ==
    [][(CommitsRound /\ UrgentPlayers(players, playerStats, roundNumber) # {})
          => getMatchPlayers(CommittedRound.matches[1])
                \cap UrgentPlayers(players, playerStats, roundNumber) # {}]_vars

C27_Witness ==
    /\ Cardinality(Roster0) > SmallRoster
    /\ \E k \in DOMAIN rounds :
          /\ k >= 2
          /\ getMatchPlayers(rounds[k].matches[1]) \cap ToSet(rounds[k - 1].resting) # {}
          /\ \E i \in DOMAIN rounds[k].matches :
                getMatchPlayers(rounds[k].matches[i]) \cap ToSet(rounds[k - 1].resting) = {}

(* Ids of the matches in the remaining pool *)
PoolIds == {remainingMatches[k].id : k \in DOMAIN remainingMatches}

(* Positions, in the round the step commits, of the matches that do not    *)
(* come from the pool: the matches urgency repair appended                 *)
AppendedAt == {i \in DOMAIN CommittedRound.matches : CommittedRound.matches[i].id \notin PoolIds}

(* What the packer selects at the top of the iteration *)
Packed ==
    selectRoundMatches(remainingMatches, courts, playerStats, teamUsageCount,
                       teamLastUsedRound, roundNumber)

(* Urgent players at the top of the iteration that the pool matches of the *)
(* committed round leave out                                               *)
MissingUrgent ==
    UrgentPlayers(players, playerStats, roundNumber) \
        UNION {getMatchPlayers(CommittedRound.matches[i]) :
                  i \in DOMAIN CommittedRound.matches \ AppendedAt}

RepairStepOk ==
    CommitsRound =>
        LET committed == CommittedRound.matches
            kept == Len(committed) - Cardinality(AppendedAt)
        IN /\ AppendedAt = (kept + 1)..Len(committed)
           /\ SubSeq(committed, 1, kept) = Packed
           /\ AppendedAt # {} => (MissingUrgent # {} /\ kept < courts)
           /\ \A i \in AppendedAt :
                 /\ getMatchPlayers(committed[i]) \cap MissingUrgent # {}
                 /\ \A j \in 1..(i - 1) :
                       getMatchPlayers(committed[i]) \cap getMatchPlayers(committed[j]) = {}
           /\ Len(committed) <= courts
           /\ repairIds' = repairIds \cup {committed[i].id : i \in AppendedAt}

(* C28: urgency repair appends matches only when an urgent player is       *)
(* absent from the packed matches and fewer than `courts` were packed;     *)
(* every appended match holds an urgent player missing after packing, is   *)
(* player-disjoint from the matches before it in the round and comes after *)
(* the packer's matches, which keep their order; the round never exceeds   *)
(* `courts` matches.                                                       *)
C28_RepairAppends == [][RepairStepOk]_vars

C28_Witness ==
    /\ Cardinality(Roster0) > SmallRoster
    /\ \E k \in DOMAIN rounds :
          /\ Len(rounds[k].matches) = courts
          /\ IsRepair(rounds[k].matches[courts])
          /\ ~IsRepair(rounds[k].matches[courts - 1])
          /\ Len(rounds[k].resting) >= 2 * TeamSize

(* A step of the loop, seen from the pool *)
PoolStepOk ==
    pc = "loop" =>
        /\ ToSet(remainingMatches') \subseteq ToSet(remainingMatches)
        /\ Len(remainingMatches') <= Len(remainingMatches)
        /\ ~CommitsRound => remainingMatches' = remainingMatches
        /\ CommitsRound =>
              LET committed == CommittedRound.matches
                  taken == {committed[i] : i \in DOMAIN committed \ AppendedAt}
              IN /\ taken = ToSet(Packed)
                 /\ taken \subseteq ToSet(remainingMatches)
                 /\ remainingMatches' =
                       SelectSeq(remainingMatches, LAMBDA m : m \notin taken)
                 /\ Len(remainingMatches') = Len(remainingMatches) - Cardinality(taken)
                 /\ \A i \in AppendedAt :
                       \A k \in DOMAIN remainingMatches' :
                           remainingMatches'[k].id # committed[i].id

(* C29: the remaining pool never grows: committing a round removes from it *)
(* exactly the pool matches the packer selected and nothing else; a match  *)
(* appended by repair is never put into the pool and removes no entry.     *)
C29_PoolShrinks == [][PoolStepOk]_vars

C29_Witness ==
    /\ pc = "loop"
    /\ remainingMatches # <<>>
    /\ rounds # <<>>
    /\ LET last == rounds[Len(rounds)].matches
       IN /\ Len(last) >= 2
          /\ IsRepair(last[Len(last)])
          /\ ~IsRepair(last[1])

(* C30: every match appended by urgency repair has the team composition of *)
(* a match scheduled in an earlier round, and never the composition of a   *)
(* match that is still in the remaining pool.                              *)
C30_RepairRepeatsScheduled ==
    \A pos \in Positions :
        IsRepair(MatchAt(pos)) =>
            /\ \E old \in Positions :
                  /\ old[1] < pos[1]
                  /\ MatchKey(MatchAt(old)) = MatchKey(MatchAt(pos))
            /\ \A k \in DOMAIN remainingMatches :
                  MatchKey(remainingMatches[k]) # MatchKey(MatchAt(pos))

C30_Witness ==
    /\ pc = "loop"
    /\ Len(remainingMatches) >= 2
    /\ rounds # <<>>
    /\ \E i \in DOMAIN rounds[Len(rounds)].matches :
          /\ IsRepair(rounds[Len(rounds)].matches[i])
          /\ \E old \in Positions :
                /\ old[1] < Len(rounds)
                /\ ~IsRepair(MatchAt(old))
                /\ MatchKey(MatchAt(old)) = MatchKey(rounds[Len(rounds)].matches[i])

(* C31: for rosters of at most 7 players every player is urgent at the top *)
(* of every iteration, the gate never ends scheduling, and the loop ends   *)
(* with the pool empty and every enumerated match scheduled.               *)
C31_SmallRosterExhausts ==
    Cardinality(Roster0) <= SmallRoster =>
        /\ pc = "loop" =>
              /\ UrgentPlayers(players, playerStats, roundNumber) = ToSet(players)
              /\ \A p \in ToSet(players) : roundNumber - playerStats[p].lastPlayedRound >= 1
              /\ ~SafetyStop(players, playerStats, roundNumber, remainingMatches)
                    \/ remainingMatches = <<>>
        /\ pc = "done" =>
              /\ exitReason = "exhausted"
              /\ remainingMatches = <<>>
              /\ AllMatchesScheduled

C31_Witness ==
    /\ pc = "done"
    /\ Cardinality(Roster0) = SmallRoster
    /\ exitReason = "exhausted"
    /\ AllMatchesScheduled
    /\ repairIds # {}

(* C32: for rosters of at most 7 players every committed round is full: it *)
(* has exactly min(courts, floor(N / (2*teamSize))) matches.               *)
C32_SmallRosterFullRounds ==
    Cardinality(Roster0) <= SmallRoster =>
        \A k \in DOMAIN rounds : Len(rounds[k].matches) = MaxSimultaneous

C32_Witness ==
    /\ pc = "done"
    /\ Cardinality(Roster0) <= SmallRoster
    /\ MaxSimultaneous >= 2
    /\ \E k \in DOMAIN rounds :
          /\ Len(rounds[k].matches) = MaxSimultaneous
          /\ IsRepair(rounds[k].matches[MaxSimultaneous])

(* Index of the most recent committed round in which team key t played,    *)
(* NeverUsed when it has not played                                        *)
RoundsUsing(t) ==
    {k \in DOMAIN rounds : t \in ToSet(RoundTeamKeys(rounds[k].matches))}
LastUsedRoundOf(t) ==
    IF RoundsUsing(t) = {} THEN NeverUsed
    ELSE (CHOOSE k \in RoundsUsing(t) : \A j \in RoundsUsing(t) : j <= k) - 1

(* The freshness score of m at round r with since_x taken from the rounds  *)
(* committed so far                                                        *)
FreshnessByHistory(m, r) ==
    LET keys == getMatchTeams(m)
        usage == teamUsageCount[keys[1]] + teamUsageCount[keys[2]]
        sinceA == r - LastUsedRoundOf(keys[1])
        sinceB == r - LastUsedRoundOf(keys[2])
        penA == IF sinceA <= 1 THEN 100 ELSE IF sinceA <= 2 THEN 50 ELSE 0
        penB == IF sinceB <= 1 THEN 100 ELSE IF sinceB <= 2 THEN 50 ELSE 0
    IN usage * 100 + penA + penB + (10 - Min2(sinceA, sinceB))

(* C33: the freshness score of every candidate match at round r is         *)
(* usage*100 + recency penalty + (10 - min(since_a, since_b)) with since_x *)
(* counted from the most recent round in which team x played, a team last  *)
(* used in round index 0 included.                                         *)
C33_FreshnessScore ==
    pc = "loop" =>
        \A k \in DOMAIN remainingMatches :
            calculateTeamFreshnessScore(remainingMatches[k], teamUsageCount,
                                        teamLastUsedRound, roundNumber)
                = FreshnessByHistory(remainingMatches[k], roundNumber)

(* maxConsecutiveRests of the call, and the candidates built from the pool *)
(* at the top of the iteration, before and after candidates.sort           *)
CurrentT == MaxConsecutiveRestsFor(Cardinality(DOMAIN playerStats))
PoolCandidates ==
    [k \in 1..Len(remainingMatches) |->
        Candidate(remainingMatches[k], playerStats, teamUsageCount,
                  teamLastUsedRound, roundNumber)]
SortedPool == SortCandidates(PoolCandidates, CurrentT)

(* C34: every player's wait is at least 1, which is at least the           *)
(* approaching threshold; of two candidates with different max wait the    *)
(* comparator orders the larger max wait first, and so does the sorted     *)
(* list.                                                                   *)
C34_LargerMaxWaitFirst ==
    pc = "loop" =>
        /\ \A p \in DOMAIN playerStats :
              /\ RoundsSince(p, playerStats, roundNumber) >= 1
              /\ 1 >= Max2(1, CurrentT - 1)
        /\ LET cs == PoolCandidates
               sorted == SortedPool
           IN /\ \A i, j \in DOMAIN cs :
                    cs[i].maxWait > cs[j].maxWait =>
                        /\ Compare(cs[i], cs[j], CurrentT) < 0
                        /\ Compare(cs[j], cs[i], CurrentT) > 0
              /\ \A i, j \in DOMAIN sorted :
                    i < j => sorted[i].maxWait >= sorted[j].maxWait

C34_Witness ==
    /\ pc = "loop"
    /\ CurrentT = 2
    /\ \E i, j \in DOMAIN remainingMatches :
          /\ i < j
          /\ PoolCandidates[i].maxWait = 1
          /\ PoolCandidates[j].maxWait >= 2
          /\ Compare(PoolCandidates[j], PoolCandidates[i], CurrentT) < 0

(* a is ordered before b by the comparator *)
OrderedBefore(a, b) == Compare(a, b, CurrentT) < 0

(* C35: the comparator is a consistent ordering of the candidates of every *)
(* reachable state: a before b and b before c give a before c.             *)
C35_ComparatorTransitive ==
    pc = "loop" =>
        LET cs == PoolCandidates
        IN \A i, j, k \in DOMAIN cs :
              (OrderedBefore(cs[i], cs[j]) /\ OrderedBefore(cs[j], cs[k]))
                  => OrderedBefore(cs[i], cs[k])

(* The matches of ms[lo..hi] picked one after the other: a match is taken  *)
(* when it shares no player with those taken and a court is left           *)
RECURSIVE GreedyPick(_, _, _, _, _)
GreedyPick(ms, lo, hi, picked, crts) ==
    IF lo > hi \/ Len(picked) >= crts THEN picked
    ELSE IF lo = hi
         THEN IF getMatchPlayers(ms[lo]) \cap PlayersOf(picked) = {}
              THEN Append(picked, ms[lo]) ELSE picked
    ELSE LET mid == (lo + hi) \div 2
         IN GreedyPick(ms, mid + 1, hi, GreedyPick(ms, lo, mid, picked, crts), crts)

(* The enumeration of the call: generateAllMatches over the roster's teams *)
Enumeration == generateAllMatches(generateTeams(players, matchType), 0)
(* The two sides of each match of ms, without the ids *)
SidesOf(ms) == [k \in DOMAIN ms |-> <<ms[k].teamA, ms[k].teamB>>]

(* C36: candidates the comparator ties keep the order of the enumeration;  *)
(* the first round is the enumeration picked greedily, and starts with the *)
(* first enumerated match.                                                 *)
C36_TiesKeepEnumerationOrder ==
    /\ pc = "loop" =>
          LET sorted == SortedPool
          IN \A p, q \in DOMAIN sorted :
                (p < q /\ Compare(sorted[p], sorted[q], CurrentT) = 0) =>
                    sorted[p].match.id < sorted[q].match.id
    /\ (pc = "loop" /\ roundNumber = 0) =>
          /\ LET cs == PoolCandidates
             IN \A i, j \in DOMAIN cs : Compare(cs[i], cs[j], CurrentT) = 0
          /\ SidesOf(remainingMatches) = SidesOf(Enumeration)
    /\ rounds # <<>> =>
          /\ SidesOf(rounds[1].matches)
                = SidesOf(GreedyPick(Enumeration, 1, Len(Enumeration), <<>>, courts))
          /\ SidesOf(rounds[1].matches)[1] = SidesOf(Enumeration)[1]

(* The per-player counters agree with round index r and the rounds rs *)
StatsAgree(ps, r, rs) ==
    \A p \in DOMAIN ps :
        /\ ps[p].playCount + ps[p].restCount = r
        /\ ps[p].lastPlayedRound < r
        /\ ps[p].restCount = RoundsResting(rs, p)

(* C37: committing round r adds 1 to playCount and sets lastPlayedRound to *)
(* r for exactly the players of the round's matches and adds 1 to          *)
(* restCount for exactly the other players; before and after, every player *)
(* has playCount + restCount = round index, lastPlayedRound below it, and  *)
(* restCount equal to the number of rounds that list the player as resting.*)
C37_StatsUpdate ==
    [][CommitsRound =>
          /\ DOMAIN playerStats = Roster0
          /\ \A p \in Roster0 :
                IF p \in PlayersOf(CommittedRound.matches)
                THEN /\ playerStats'[p].playCount = playerStats[p].playCount + 1
                     /\ playerStats'[p].lastPlayedRound = roundNumber
                     /\ playerStats'[p].restCount = playerStats[p].restCount
                ELSE /\ playerStats'[p].restCount = playerStats[p].restCount + 1
                     /\ playerStats'[p].playCount = playerStats[p].playCount
                     /\ playerStats'[p].lastPlayedRound = playerStats[p].lastPlayedRound
          /\ StatsAgree(playerStats, roundNumber, rounds)
          /\ StatsAgree(playerStats', roundNumber', rounds')]_vars

C37_Witness ==
    /\ pc = "loop"
    /\ roundNumber >= 3
    /\ StatsAgree(playerStats, roundNumber, rounds)
    /\ \E p \in DOMAIN playerStats :
          /\ playerStats[p].restCount >= 2
          /\ playerStats[p].playCount >= 1
          /\ playerStats[p].lastPlayedRound < roundNumber - 1

(* Number of matches generateAllMatches enumerates for the roster *)
EnumeratedCount == Len(MatchPairs(generateTeams(Dedup(inputPlayers), matchType)))

(* C38: every committed round holds at least one match of the remaining    *)
(* pool, so the pool gets strictly shorter with each round; the number of  *)
(* rounds never exceeds min(1000, number of enumerated matches), and the   *)
(* loop never stops because the selection is empty.                        *)
C38_RoundTakesPoolMatch ==
    [][/\ CommitsRound =>
             /\ \E i \in DOMAIN CommittedRound.matches :
                   CommittedRound.matches[i].id \in PoolIds
             /\ Len(remainingMatches') < Len(remainingMatches)
       /\ Len(rounds') <= Min2(maxIterations, EnumeratedCount)
       /\ exitReason' # "empty"]_vars

C38_Witness ==
    /\ pc = "done"
    /\ exitReason = "exhausted"
    /\ Len(rounds) = EnumeratedCount
    /\ EnumeratedCount >= 10
    /\ rounds[Len(rounds)].matches[1].id \notin repairIds

(* The completed flags the client shows are those of the store *)
FlagsAgree ==
    \A k \in DOMAIN view[1].rounds :
        view[1].rounds[k].completed
            = schedules[view[1].scheduleId].rounds[k].completed

(* C39: once no toggle call of the schedule view is pending, the completed *)
(* flag the client holds for each round is the flag the store holds, also  *)
(* after toggles of two different rounds that overlapped.                  *)
C39_ClientFlagsMatchStore ==
    (view # <<>> /\ calls = {}) => FlagsAgree

====
